---- MODULE Spec2Model ----
(***************************************************************************)
(* Line index, source buffer wrapper and position conversion of the        *)
(* rpa-source-file crate, as a state machine over bounded UTF-8 texts.     *)
(*                                                                         *)
(* A text is a Rust &str: a sequence of Unicode scalar values (chars) held *)
(* as its UTF-8 bytes (text).  Byte offsets are zero-based; TLA+ sequences *)
(* are one-based, so byte i of a text t is t[i + 1].                       *)
(***************************************************************************)
EXTENDS Integers, Sequences, FiniteSets, TLC

\* ---------------------------------------------------------------- bounds
\* Longest text, in Unicode scalar values.
MaxChars == 4
\* Lines past line_count + 1 that are still asked for.
MaxExtraLines == 2
\* Columns past the byte length of the text that are still asked for.
MaxExtraCols == 2
\* Width of usize in the model.
UsizeBits == 16
\* Width of u32 (TextSize) in the model.
U32Bits == 8
\* Threads that share one SourceFile.
NumReaders == 2
\* Longest text of a shared SourceFile, in Unicode scalar values.
MaxFileChars == 2
\* Longest name and longest text of a compared SourceFile, in scalar values.
MaxNameChars == 1
\* Largest offset of an enumerated comment range or query range.
MaxOffset == 6
\* Most comment ranges of an enumerated comment range index.
MaxComments == 3
\* Lines of a source text given to block_comments.
MaxSrcLines == 4
\* Distance from 0 and from MAX of the operands of integer arithmetic.
MaxStep == 3
\* Distance from 1 and from MAX within which a OneIndexed value is followed.
MaxOne == 6
\* Longest text, in scalar values, and most comment ranges of a pass of
\* block_comments over arbitrary well-formed comment ranges.
MaxAnyChars == 4
MaxAnyComments == 2
\* Threads that share one ThreadSafePool, largest capacity of the pool, and
\* objects its factory creates at most.
NumPoolThreads == 2
MaxCapacity == 2
MaxObjects == 3

\* ------------------------------------------------------------- alphabet
LF == 10
CR == 13
LetterX == 120
\* U+FEFF, the byte-order mark: three UTF-8 bytes, one UTF-16 unit.
BOM == 65279
\* U+1FAE3, outside the Basic Multilingual Plane: four bytes, two units.
Astral == 129763
Alphabet == {LetterX, LF, CR, BOM, Astral}

RECURSIVE Pow2(_)
Pow2(n) == IF n = 0 THEN 1 ELSE 2 * Pow2(n - 1)

UsizeMax == Pow2(UsizeBits) - 1

U32Max == Pow2(U32Bits) - 1

\* char::encode_utf8: the UTF-8 bytes of one scalar value.
EncodeUtf8(c) ==
    IF c < 128 THEN <<c>>
    ELSE IF c < 2048 THEN <<192 + (c \div 64), 128 + (c % 64)>>
    ELSE IF c < 65536
         THEN <<224 + (c \div 4096), 128 + ((c \div 64) % 64), 128 + (c % 64)>>
         ELSE <<240 + (c \div 262144), 128 + ((c \div 4096) % 64),
                128 + ((c \div 64) % 64), 128 + (c % 64)>>

\* str::as_bytes of the string made of the scalar values cs.
RECURSIVE as_bytes(_)
as_bytes(cs) == IF cs = <<>> THEN <<>> ELSE EncodeUtf8(Head(cs)) \o as_bytes(Tail(cs))

\* All strings of at most n scalar values.
Strings(n) == UNION {[1..k -> Alphabet] : k \in 0..n}

\* str::text_len
text_len(t) == Len(t)

\* u8::is_ascii
is_ascii_byte(b) == b < 128

\* str::is_char_boundary: offset i of t is the start of a char or the end.
is_char_boundary(t, i) ==
    i = 0 \/ i = Len(t) \/ (i > 0 /\ i < Len(t) /\ ~(t[i + 1] >= 128 /\ t[i + 1] < 192))

\* Width in bytes of the char whose first byte is b (Chars::next).
Utf8Width(b) == IF b < 128 THEN 1 ELSE IF b < 224 THEN 2 ELSE IF b < 240 THEN 3 ELSE 4

\* len_utf16 counting a char outside the Basic Multilingual Plane once.
len_utf16_NoSurrogates(b) == 1

\* char::len_utf16 of the char whose first byte is b.
len_utf16(b) == IF Utf8Width(b) = 4 THEN 2 ELSE 1

\* ----------------------------------------------------------- OneIndexed
\* OneIndexed::from_zero_indexed: ONE.saturating_add(value).
from_zero_indexed(v) == IF 1 + v > UsizeMax THEN UsizeMax ELSE 1 + v

\* OneIndexed::to_zero_indexed
to_zero_indexed(l) == l - 1

\* OneIndexed::saturating_add
one_saturating_add(l, rhs) == IF l + rhs > UsizeMax THEN UsizeMax ELSE l + rhs

\* saturating_sub going down to 0.
one_saturating_sub_ToZero(l, rhs) == IF l - rhs < 0 THEN 0 ELSE l - rhs

\* OneIndexed::saturating_sub
one_saturating_sub(l, rhs) == IF l - rhs < 1 THEN 1 ELSE l - rhs

\* OneIndexed::new: <<v>> for Some(v), <<>> for None.
one_new(value) == IF value = 0 THEN <<>> ELSE <<value>>

\* OneIndexed::checked_add
one_checked_add(l, rhs) == IF l + rhs > UsizeMax THEN <<>> ELSE <<l + rhs>>

\* OneIndexed::checked_sub
one_checked_sub(l, rhs) == IF l < rhs THEN <<>> ELSE one_new(l - rhs)

\* ------------------------------------------------------------- TextSize
\* checked_add keeping the low bits of the sum.
text_size_checked_add_Wrapping(a, b) == <<(a + b) % Pow2(U32Bits)>>

\* TextSize::checked_add: <<v>> for Some(v), <<>> for None.
text_size_checked_add(a, b) == IF a + b > U32Max THEN <<>> ELSE <<a + b>>

\* TextSize::checked_sub
text_size_checked_sub(a, b) == IF a < b THEN <<>> ELSE <<a - b>>

\* ------------------------------------------------------------ LineIndex
\* PushLineStart recording the break of a \r\n pair at the \r as well as at
\* the \n, both at the offset after the pair.
PushLineStart_PairTwice(bytes, i, starts) ==
    IF bytes[i + 1] = CR /\ i + 1 < Len(bytes) /\ bytes[i + 2] = LF
    THEN Append(starts, i + 2)
    ELSE IF bytes[i + 1] = LF \/ bytes[i + 1] = CR
         THEN Append(starts, i + 1)
         ELSE starts

\* PushLineStart without the guard for \r\n: every \r and \n is a break.
PushLineStart_EveryBreak(bytes, i, starts) ==
    IF bytes[i + 1] = LF \/ bytes[i + 1] = CR
    THEN Append(starts, i + 1)
    ELSE starts

\* The body of the byte loop of from_source_text for byte i: the table
\* after the byte has been looked at.
PushLineStart(bytes, i, starts) ==
    IF bytes[i + 1] = CR /\ i + 1 < Len(bytes) /\ bytes[i + 2] = LF
    THEN starts
    ELSE IF bytes[i + 1] = LF \/ bytes[i + 1] = CR
         THEN Append(starts, i + 1)
         ELSE starts

\* The flag taking the value of the last byte: = in place of |=.
note_utf8_LastByte(utf8, byte) == ~is_ascii_byte(byte)

\* utf8 |= !byte.is_ascii()
note_utf8(utf8, byte) == utf8 \/ ~is_ascii_byte(byte)

RECURSIVE ScanBytes(_, _, _, _)
ScanBytes(bytes, i, starts, utf8) ==
    IF i >= Len(bytes)
    THEN [line_starts |-> starts, kind |-> IF utf8 THEN "Utf8" ELSE "Ascii"]
    ELSE ScanBytes(bytes, i + 1, PushLineStart(bytes, i, starts),
                   note_utf8(utf8, bytes[i + 1]))

\* LineIndex::from_source_text
from_source_text(t) == ScanBytes(t, 0, <<0>>, FALSE)

NoIndex == [line_starts |-> <<>>, kind |-> "None"]

\* LineIndex::line_count
line_count(ix) == Len(ix.line_starts)

\* LineIndex::is_ascii
is_ascii(ix) == ix.kind = "Ascii"

\* ------------------------------------------------------------ results
\* An operation either returns a tuple of numbers or aborts (panics).
Ok(v) == [ok |-> TRUE, v |-> v]
Panic == [ok |-> FALSE, v |-> <<>>]

\* slice::binary_search over s[lo..hi) (zero-based), for the value x:
\* found at a position, or not found with the insertion point.
RECURSIVE binary_search_in(_, _, _, _)
binary_search_in(s, x, lo, hi) ==
    IF lo >= hi THEN [found |-> FALSE, at |-> lo]
    ELSE LET mid == lo + ((hi - lo) \div 2) IN
         IF s[mid + 1] = x THEN [found |-> TRUE, at |-> mid]
         ELSE IF s[mid + 1] < x THEN binary_search_in(s, x, mid + 1, hi)
         ELSE binary_search_in(s, x, lo, mid)

binary_search(s, x) == binary_search_in(s, x, 0, Len(s))

\* line_index without the step back from the insertion point.
line_index_NoStepBack(ix, o) ==
    LET bs == binary_search(ix.line_starts, o) IN
    Ok(<<from_zero_indexed(bs.at)>>)

\* LineIndex::line_index: the one-based line of offset o.  `row - 1` on a
\* usize aborts when row is 0.
line_index(ix, o) ==
    LET bs == binary_search(ix.line_starts, o) IN
    IF bs.found THEN Ok(<<from_zero_indexed(bs.at)>>)
    ELSE IF bs.at = 0 THEN Panic
    ELSE Ok(<<from_zero_indexed(bs.at - 1)>>)

\* line_start without the case of the line after the last line.
line_start_NoVirtualLine(ix, line, t) ==
    LET row_index == to_zero_indexed(line)
        starts == ix.line_starts IN
    IF row_index < Len(starts) THEN Ok(<<starts[row_index + 1]>>)
    ELSE Panic

\* LineIndex::line_start: indexing the table out of bounds aborts.
line_start(ix, line, t) ==
    LET row_index == to_zero_indexed(line)
        starts == ix.line_starts IN
    IF row_index = Len(starts) THEN Ok(<<text_len(t)>>)
    ELSE IF row_index < Len(starts) THEN Ok(<<starts[row_index + 1]>>)
    ELSE Panic

\* usize::saturating_add
usize_saturating_add(a, b) == IF a + b > UsizeMax THEN UsizeMax ELSE a + b

\* LineIndex::line_end
line_end(ix, line, t) ==
    LET row_index == to_zero_indexed(line)
        starts == ix.line_starts IN
    IF usize_saturating_add(row_index, 1) >= Len(starts) THEN Ok(<<text_len(t)>>)
    ELSE Ok(<<starts[row_index + 2]>>)

\* LineIndex::line_end_exclusive
line_end_exclusive(ix, line, t) ==
    LET row_index == to_zero_indexed(line)
        starts == ix.line_starts IN
    IF usize_saturating_add(row_index, 1) >= Len(starts) THEN Ok(<<text_len(t)>>)
    ELSE Ok(<<starts[row_index + 2] - 1>>)

\* line_range answering every line past the end with the empty range.
line_range_Clamped(ix, line, t) ==
    LET starts == ix.line_starts IN
    IF Len(starts) <= to_zero_indexed(line) THEN Ok(<<text_len(t), text_len(t)>>)
    ELSE Ok(<<line_start(ix, line, t).v[1],
              line_start(ix, one_saturating_add(line, 1), t).v[1]>>)

\* LineIndex::line_range: <<start, end>>.
line_range(ix, line, t) ==
    LET starts == ix.line_starts IN
    IF Len(starts) = to_zero_indexed(line) THEN Ok(<<text_len(t), text_len(t)>>)
    ELSE LET s == line_start(ix, line, t)
             e == line_start(ix, one_saturating_add(line, 1), t) IN
         IF ~s.ok \/ ~e.ok THEN Panic
         ELSE IF s.v[1] > e.v[1] THEN Panic
         ELSE Ok(<<s.v[1], e.v[1]>>)

\* &text[TextRange::new(a, b)]: aborts unless a <= b <= len and both ends
\* are char boundaries.
CanSlice(t, a, b) ==
    a <= b /\ b <= Len(t) /\ is_char_boundary(t, a) /\ is_char_boundary(t, b)

Slice(t, a, b) == SubSeq(t, a + 1, b)

\* str::chars().count() of the UTF-8 bytes s, read from byte i on.
RECURSIVE chars_count(_, _)
chars_count(s, i) ==
    IF i >= Len(s) THEN 0 ELSE 1 + chars_count(s, i + Utf8Width(s[i + 1]))

\* str::encode_utf16().count() of the UTF-8 bytes s, read from byte i on.
RECURSIVE encode_utf16_count(_, _)
encode_utf16_count(s, i) ==
    IF i >= Len(s) THEN 0
    ELSE len_utf16(s[i + 1]) + encode_utf16_count(s, i + Utf8Width(s[i + 1]))

Encodings == {"Utf8", "Utf16", "Utf32"}

\* The character offset of source_location, zero-based, for a text that is
\* not pure ASCII: the match on the encoding.
character_of(t, start, o, enc) ==
    IF enc = "Utf8" THEN o - start
    ELSE IF enc = "Utf16" THEN encode_utf16_count(Slice(t, start, o), 0)
    ELSE chars_count(Slice(t, start, o), 0)

\* The fast path counting the column from the start of the text.
ascii_location_FromTextStart(line, o, start) == <<line, from_zero_indexed(o)>>

\* The fast path of source_location: the raw byte delta from line start.
ascii_location(line, o, start) == <<line, from_zero_indexed(o - start)>>

\* LineIndex::source_location: <<line, character_offset>>, both one-based.
source_location(ix, o, t, enc) ==
    LET li == line_index(ix, o) IN
    IF ~li.ok THEN Panic
    ELSE LET line == li.v[1]
             ls == line_start(ix, line, t) IN
         IF ~ls.ok THEN Panic
         ELSE LET start == ls.v[1] IN
              IF o < start THEN Panic
              ELSE IF is_ascii(ix) THEN Ok(ascii_location(line, o, start))
              ELSE IF enc = "Utf8" THEN Ok(<<line, from_zero_indexed(o - start)>>)
              ELSE IF ~CanSlice(t, start, o) THEN Panic
                   ELSE Ok(<<line, from_zero_indexed(character_of(t, start, o, enc))>>)

\* str::starts_with('\u{feff}')
starts_with_bom(t) == Len(t) >= 3 /\ SubSeq(t, 1, 3) = EncodeUtf8(BOM)

\* line_column taking the mark off the column on every line.
line_column_EveryLine(ix, o, t) ==
    LET location == source_location(ix, o, t, "Utf32") IN
    IF ~location.ok THEN Panic
    ELSE IF starts_with_bom(t)
         THEN Ok(<<location.v[1], one_saturating_sub(location.v[2], 1)>>)
         ELSE Ok(<<location.v[1], location.v[2]>>)

\* LineIndex::line_column: <<line, column>>, both one-based.
line_column(ix, o, t) ==
    LET location == source_location(ix, o, t, "Utf32") IN
    IF ~location.ok THEN Panic
    ELSE LET line == location.v[1]
             character_offset == location.v[2] IN
         IF to_zero_indexed(line) = 0 /\ starts_with_bom(t)
         THEN Ok(<<line, one_saturating_sub(character_offset, 1)>>)
         ELSE Ok(<<line, character_offset>>)

\* line.chars().take(n).map(text_len).sum()
RECURSIVE utf32_byte_offset(_, _, _)
utf32_byte_offset(l, i, n) ==
    IF i >= Len(l) \/ n = 0 THEN i
    ELSE utf32_byte_offset(l, i + Utf8Width(l[i + 1]), n - 1)

\* The Utf16 loop adding one code unit for every char.
utf16_byte_offset_OneUnit(l, i, units, character_offset) ==
    utf32_byte_offset(l, i, character_offset - units)

\* The Utf16 loop of offset: bytes walked from byte i of the line until
\* `units` code units reach character_offset.
RECURSIVE utf16_byte_offset(_, _, _, _)
utf16_byte_offset(l, i, units, character_offset) ==
    IF i >= Len(l) \/ units >= character_offset THEN i
    ELSE utf16_byte_offset(l, i + Utf8Width(l[i + 1]), units + len_utf16(l[i + 1]),
                           character_offset)

\* TextSize::clamp
clamp(x, lo, hi) == IF x < lo THEN lo ELSE IF x > hi THEN hi ELSE x

\* LineIndex::offset: the byte offset of position <<line, character_offset>>.
\* TextSize::try_from(usize).unwrap() aborts above the u32 range.
offset(ix, line, col, t, enc) ==
    IF to_zero_indexed(line) > Len(ix.line_starts) THEN Ok(<<text_len(t)>>)
    ELSE LET lr == line_range(ix, line, t) IN
         IF ~lr.ok THEN Panic
         ELSE LET start == lr.v[1]
                  len == lr.v[2] - lr.v[1]
                  character_offset == to_zero_indexed(col) IN
              IF is_ascii(ix) \/ enc = "Utf8"
              THEN IF ~is_ascii(ix) /\ ~CanSlice(t, lr.v[1], lr.v[2]) THEN Panic
                   ELSE IF character_offset > U32Max THEN Panic
                   ELSE Ok(<<start + clamp(character_offset, 0, len)>>)
              ELSE IF ~CanSlice(t, lr.v[1], lr.v[2]) THEN Panic
                   ELSE LET l == Slice(t, lr.v[1], lr.v[2])
                            cbo == IF enc = "Utf16"
                                   THEN utf16_byte_offset(l, 0, 0, character_offset)
                                   ELSE utf32_byte_offset(l, 0, character_offset) IN
                        Ok(<<start + clamp(cbo, 0, len)>>)

VARIABLES
    chars,      \* the text as Unicode scalar values
    text,       \* the same text as UTF-8 bytes
    index,      \* the LineIndex built for text, NoIndex before it is built
    res,        \* the last query: operation, arguments, result
    sf_phase,       \* "builder" until SourceFileBuilder::finish, then "file"
    builder_index,  \* SourceFileBuilder.index: NoIndex for None
    once_state,     \* state of the OnceLock: Incomplete, Running, Complete
    once_value,     \* slot of the OnceLock: NoIndex while not written
    pc,             \* where each reader is inside SourceFile::index
    local,          \* the index a reader's closure has built
    got,            \* what index() last returned to each reader
    built,          \* runs of LineIndex::from_source_text for the file
    files,          \* two SourceFile values that are compared
    raw,            \* CommentRanges.raw: the comment ranges, <<start, end>>
    bc,             \* the locals of a block_comments pass
    one,            \* a OneIndexed value, 0 while there is none
    pool            \* a ThreadSafePool, its factory and the threads that use it

lineVars == <<chars, text, index, res>>

moreVars == <<files, raw, bc, one, pool>>

fileVars == <<sf_phase, builder_index, once_state, once_value, pc, local, got, built>>

vars == <<chars, text, index, res,
          sf_phase, builder_index, once_state, once_value, pc, local, got, built,
          files, raw, bc, one, pool>>

Readers == 1..NumReaders

NotReturned == [line_starts |-> <<>>, kind |-> "NotReturned"]

\* A source buffer wrapper that is not looked at: no builder, no readers.
NoFile ==
    /\ sf_phase = "none"
    /\ builder_index = NoIndex
    /\ once_state = "Incomplete"
    /\ once_value = NoIndex
    /\ pc = [r \in Readers |-> "idle"]
    /\ local = [r \in Readers |-> NoIndex]
    /\ got = [r \in Readers |-> NotReturned]
    /\ built = 0

NoRes == [op |-> "none", arg |-> <<>>, enc |-> "none", r |-> Panic]

NoFiles == [a |-> [name |-> <<>>, code |-> <<>>, alloc |-> 0],
            b |-> [name |-> <<>>, code |-> <<>>, alloc |-> 0]]

\* block_comments has not been called.
NoPass == [i |-> 0, done |-> FALSE, block_comments |-> <<>>, current_block |-> <<>>,
           current_block_column |-> -1, current_block_non_empty |-> FALSE,
           prev_line_end |-> -1, panicked |-> FALSE]

\* No ThreadSafePool has been made.
NoPool == [made |-> FALSE]

\* No SourceFile values are compared, no comment ranges are held.
NoMore ==
    /\ files = NoFiles
    /\ raw = <<>>
    /\ bc = NoPass
    /\ one = 0
    /\ pool = NoPool

Init ==
    /\ chars \in Strings(MaxChars)
    /\ text = as_bytes(chars)
    /\ index = NoIndex
    /\ res = NoRes
    /\ NoFile
    /\ NoMore

\* LineIndex::from_source_text(text); a text longer than u32::MAX bytes
\* fails the assertion and no index is made.
FromSourceText ==
    /\ index = NoIndex
    /\ Len(text) <= U32Max
    /\ index' = from_source_text(text)
    /\ UNCHANGED <<chars, text, res>>
    /\ UNCHANGED <<fileVars, moreVars>>

\* A query is made on a built index, once the previous result has been used.
Indexed == index # NoIndex /\ res = NoRes

Offsets == 0..Len(text)

Lines == 1..(line_count(index) + 1 + MaxExtraLines)

\* Columns on and a little past the text, and columns whose zero-based value
\* is the largest that fits a TextSize, the first that does not, and the
\* largest usize.
Cols == 1..(Len(text) + 1 + MaxExtraCols) \cup {U32Max + 1, U32Max + 2, UsizeMax}

Query(op, arg, enc, r) == [op |-> op, arg |-> arg, enc |-> enc, r |-> r]

\* index.line_index(o)
LineIndexQ ==
    /\ Indexed
    /\ \E o \in Offsets : res' = Query("line_index", <<o>>, "none", line_index(index, o))
    /\ UNCHANGED <<chars, text, index>>
    /\ UNCHANGED <<fileVars, moreVars>>

\* index.line_start(line, text)
LineStart ==
    /\ Indexed
    /\ \E l \in Lines : res' = Query("line_start", <<l>>, "none", line_start(index, l, text))
    /\ UNCHANGED <<chars, text, index>>
    /\ UNCHANGED <<fileVars, moreVars>>

\* index.line_end(line, text)
LineEnd ==
    /\ Indexed
    /\ \E l \in Lines : res' = Query("line_end", <<l>>, "none", line_end(index, l, text))
    /\ UNCHANGED <<chars, text, index>>
    /\ UNCHANGED <<fileVars, moreVars>>

\* index.line_end_exclusive(line, text)
LineEndExclusive ==
    /\ Indexed
    /\ \E l \in Lines :
          res' = Query("line_end_exclusive", <<l>>, "none", line_end_exclusive(index, l, text))
    /\ UNCHANGED <<chars, text, index>>
    /\ UNCHANGED <<fileVars, moreVars>>

\* index.line_range(line, text)
LineRange ==
    /\ Indexed
    /\ \E l \in Lines : res' = Query("line_range", <<l>>, "none", line_range(index, l, text))
    /\ UNCHANGED <<chars, text, index>>
    /\ UNCHANGED <<fileVars, moreVars>>

\* index.source_location(o, text, enc)
SourceLocation ==
    /\ Indexed
    /\ \E o \in Offsets, enc \in Encodings :
          res' = Query("source_location", <<o>>, enc, source_location(index, o, text, enc))
    /\ UNCHANGED <<chars, text, index>>
    /\ UNCHANGED <<fileVars, moreVars>>

\* index.line_column(o, text)
LineColumn ==
    /\ Indexed
    /\ \E o \in Offsets : res' = Query("line_column", <<o>>, "none", line_column(index, o, text))
    /\ UNCHANGED <<chars, text, index>>
    /\ UNCHANGED <<fileVars, moreVars>>

\* index.offset(SourceLocation { line, character_offset }, text, enc)
Offset ==
    /\ Indexed
    /\ \E l \in Lines, c \in Cols, enc \in Encodings :
          res' = Query("offset", <<l, c>>, enc, offset(index, l, c, text, enc))
    /\ UNCHANGED <<chars, text, index>>
    /\ UNCHANGED <<fileVars, moreVars>>

\* The caller uses the result and goes on to its next query.
Return ==
    /\ res # NoRes
    /\ res' = NoRes
    /\ UNCHANGED <<chars, text, index>>
    /\ UNCHANGED <<fileVars, moreVars>>

Next ==
    \/ FromSourceText
    \/ LineIndexQ
    \/ LineStart
    \/ LineEnd
    \/ LineEndExclusive
    \/ LineRange
    \/ SourceLocation
    \/ LineColumn
    \/ Offset
    \/ Return

Spec == Init /\ [][Next]_vars

\* ============================================================ SourceFile
\* SourceFileBuilder::new(name, code)
InitFile ==
    /\ chars \in Strings(MaxFileChars)
    /\ text = as_bytes(chars)
    /\ index = NoIndex
    /\ res = NoRes
    /\ sf_phase = "builder"
    /\ builder_index = NoIndex
    /\ once_state = "Incomplete"
    /\ once_value = NoIndex
    /\ pc = [r \in Readers |-> "idle"]
    /\ local = [r \in Readers |-> NoIndex]
    /\ got = [r \in Readers |-> NotReturned]
    /\ built = 0
    /\ NoMore

\* SourceFileBuilder::set_line_index / line_index: any LineIndex the caller
\* holds, built for this text or for another one.
SetLineIndex ==
    /\ sf_phase = "builder"
    /\ \E cs \in Strings(MaxFileChars) : builder_index' = from_source_text(as_bytes(cs))
    /\ UNCHANGED <<sf_phase, once_state, once_value, pc, local, got, built>>
    /\ UNCHANGED <<lineVars, moreVars>>

\* SourceFileBuilder::finish: OnceLock::from(index) or OnceLock::new().
Finish ==
    /\ sf_phase = "builder"
    /\ sf_phase' = "file"
    /\ IF builder_index # NoIndex
       THEN once_state' = "Complete" /\ once_value' = builder_index
       ELSE once_state' = "Incomplete" /\ once_value' = NoIndex
    /\ UNCHANGED <<builder_index, pc, local, got, built>>
    /\ UNCHANGED <<lineVars, moreVars>>

\* A reader calls SourceFile::index.
Call(r) ==
    /\ sf_phase = "file"
    /\ pc[r] = "idle"
    /\ pc' = [pc EXCEPT ![r] = "get"]
    /\ UNCHANGED <<sf_phase, builder_index, once_state, once_value, local, got, built>>
    /\ UNCHANGED <<lineVars, moreVars>>

\* get_or_init, fast path: the cell is complete and its value is returned;
\* otherwise the reader goes on to initialize the cell.
Get(r) ==
    /\ pc[r] = "get"
    /\ IF once_state = "Complete"
       THEN /\ got' = [got EXCEPT ![r] = once_value]
            /\ pc' = [pc EXCEPT ![r] = "done"]
       ELSE /\ pc' = [pc EXCEPT ![r] = "initialize"]
            /\ UNCHANGED got
    /\ UNCHANGED <<sf_phase, builder_index, once_state, once_value, local, built>>
    /\ UNCHANGED <<lineVars, moreVars>>

\* get_or_init letting a reader start the closure while another runs it.
OnceBegin_NoExclusion(r) ==
    /\ pc[r] = "initialize"
    /\ once_state # "Complete"
    /\ once_state' = "Running"
    /\ pc' = [pc EXCEPT ![r] = "closure"]
    /\ UNCHANGED <<sf_phase, builder_index, once_value, local, got, built>>
    /\ UNCHANGED <<lineVars, moreVars>>

\* get_or_init, slow path: the one reader that finds the cell incomplete
\* takes it and will run the closure; a reader that finds it running waits.
OnceBegin(r) ==
    /\ pc[r] = "initialize"
    /\ once_state = "Incomplete"
    /\ once_state' = "Running"
    /\ pc' = [pc EXCEPT ![r] = "closure"]
    /\ UNCHANGED <<sf_phase, builder_index, once_value, local, got, built>>
    /\ UNCHANGED <<lineVars, moreVars>>

\* get_or_init, slow path: the cell was completed by another reader.
OnceSkip(r) ==
    /\ pc[r] = "initialize"
    /\ once_state = "Complete"
    /\ pc' = [pc EXCEPT ![r] = "get_unchecked"]
    /\ UNCHANGED <<sf_phase, builder_index, once_state, once_value, local, got, built>>
    /\ UNCHANGED <<lineVars, moreVars>>

\* The closure: LineIndex::from_source_text(self.source_text()).
RunClosure(r) ==
    /\ pc[r] = "closure"
    /\ local' = [local EXCEPT ![r] = from_source_text(text)]
    /\ built' = built + 1
    /\ pc' = [pc EXCEPT ![r] = "write"]
    /\ UNCHANGED <<sf_phase, builder_index, once_state, once_value, got>>
    /\ UNCHANGED <<lineVars, moreVars>>

\* The value of the closure is written to the slot of the cell.
WriteSlot(r) ==
    /\ pc[r] = "write"
    /\ once_value' = local[r]
    /\ pc' = [pc EXCEPT ![r] = "publish"]
    /\ UNCHANGED <<sf_phase, builder_index, once_state, local, got, built>>
    /\ UNCHANGED <<lineVars, moreVars>>

\* The cell is marked complete and the waiting readers are woken.
Publish(r) ==
    /\ pc[r] = "publish"
    /\ once_state' = "Complete"
    /\ pc' = [pc EXCEPT ![r] = "get_unchecked"]
    /\ UNCHANGED <<sf_phase, builder_index, once_value, local, got, built>>
    /\ UNCHANGED <<lineVars, moreVars>>

\* get_or_init returns the value in the slot.
GetUnchecked(r) ==
    /\ pc[r] = "get_unchecked"
    /\ got' = [got EXCEPT ![r] = once_value]
    /\ pc' = [pc EXCEPT ![r] = "done"]
    /\ UNCHANGED <<sf_phase, builder_index, once_state, once_value, local, built>>
    /\ UNCHANGED <<lineVars, moreVars>>

\* The reader is free to call index() again.
Again(r) ==
    /\ pc[r] = "done"
    /\ pc' = [pc EXCEPT ![r] = "idle"]
    /\ UNCHANGED <<sf_phase, builder_index, once_state, once_value, local, got, built>>
    /\ UNCHANGED <<lineVars, moreVars>>

NextFile ==
    \/ SetLineIndex
    \/ Finish
    \/ \E r \in Readers : Call(r)
    \/ \E r \in Readers : Get(r)
    \/ \E r \in Readers : OnceBegin(r)
    \/ \E r \in Readers : OnceSkip(r)
    \/ \E r \in Readers : RunClosure(r)
    \/ \E r \in Readers : WriteSlot(r)
    \/ \E r \in Readers : Publish(r)
    \/ \E r \in Readers : GetUnchecked(r)
    \/ \E r \in Readers : Again(r)

SpecFile == InitFile /\ [][NextFile]_vars

\* ================================================= SourceFile comparison
\* <str as Ord>::cmp: lexicographic on the bytes; -1 Less, 0 Equal, 1 Greater.
RECURSIVE str_cmp(_, _)
str_cmp(a, b) ==
    IF a = <<>> /\ b = <<>> THEN 0
    ELSE IF a = <<>> THEN -1
    ELSE IF b = <<>> THEN 1
    ELSE IF Head(a) < Head(b) THEN -1
    ELSE IF Head(a) > Head(b) THEN 1
    ELSE str_cmp(Tail(a), Tail(b))

\* Arc::ptr_eq(&self.inner, &other.inner)
ptr_eq(a, b) == a.alloc = b.alloc

\* <SourceFile as Ord>::cmp
source_file_cmp(a, b) == IF ptr_eq(a, b) THEN 0 ELSE str_cmp(a.name, b.name)

\* <SourceFileInner as PartialEq>::eq
source_file_inner_eq(a, b) == a.name = b.name /\ a.code = b.code

\* <SourceFile as PartialEq>::eq, derived: equality of the shared inner values.
source_file_eq(a, b) == ptr_eq(a, b) \/ source_file_inner_eq(a, b)

\* A SourceFile finished by a builder, in its own allocation.
NewSourceFile(name, code, alloc) == [name |-> name, code |-> code, alloc |-> alloc]

FileStrings == {as_bytes(cs) : cs \in Strings(MaxNameChars)}

\* Two SourceFile values: b is a clone of a (the same allocation) or was
\* finished by another builder.
InitCmp ==
    /\ \E an \in FileStrings, ac \in FileStrings :
         \/ files = [a |-> NewSourceFile(an, ac, 1), b |-> NewSourceFile(an, ac, 1)]
         \/ \E bn \in FileStrings, bcode \in FileStrings :
              files = [a |-> NewSourceFile(an, ac, 1), b |-> NewSourceFile(bn, bcode, 2)]
    /\ chars = <<>>
    /\ text = <<>>
    /\ index = NoIndex
    /\ res = NoRes
    /\ NoFile
    /\ raw = <<>>
    /\ bc = NoPass
    /\ one = 0
    /\ pool = NoPool

\* a.cmp(&b)
CmpFiles ==
    /\ res = NoRes
    /\ res' = Query("cmp", <<>>, "none", Ok(<<source_file_cmp(files.a, files.b)>>))
    /\ UNCHANGED <<chars, text, index, fileVars, moreVars>>

\* a == b
EqFiles ==
    /\ res = NoRes
    /\ res' = Query("eq", <<>>, "none",
                    Ok(<<IF source_file_eq(files.a, files.b) THEN 1 ELSE 0>>))
    /\ UNCHANGED <<chars, text, index, fileVars, moreVars>>

NextCmp ==
    \/ CmpFiles
    \/ EqFiles
    \/ Return

SpecCmp == InitCmp /\ [][NextCmp]_vars

\* ================================================== TextSize, OneIndexed
InitTextSize ==
    /\ chars = <<>>
    /\ text = <<>>
    /\ index = NoIndex
    /\ res = NoRes
    /\ NoFile
    /\ NoMore

\* a.checked_add(b)
CheckedAdd ==
    /\ res = NoRes
    /\ \E a \in 0..U32Max, b \in 0..U32Max :
          res' = Query("checked_add", <<a, b>>, "none", Ok(text_size_checked_add(a, b)))
    /\ UNCHANGED <<chars, text, index, fileVars, moreVars>>

\* a.checked_sub(b)
CheckedSub ==
    /\ res = NoRes
    /\ \E a \in 0..U32Max, b \in 0..U32Max :
          res' = Query("checked_sub", <<a, b>>, "none", Ok(text_size_checked_sub(a, b)))
    /\ UNCHANGED <<chars, text, index, fileVars, moreVars>>

NextTextSize ==
    \/ CheckedAdd
    \/ CheckedSub
    \/ Return

SpecTextSize == InitTextSize /\ [][NextTextSize]_vars

\* The usize operands: near 0 and near usize::MAX.
UsizeInputs == 0..MaxStep \cup (UsizeMax - MaxStep)..UsizeMax

\* The OneIndexed values that are followed.
NearEnds(v) == v <= 1 + MaxOne \/ v >= UsizeMax - MaxOne

InitOneIndexed ==
    /\ \E v \in UsizeInputs : one = from_zero_indexed(v)
    /\ chars = <<>>
    /\ text = <<>>
    /\ index = NoIndex
    /\ res = NoRes
    /\ NoFile
    /\ files = NoFiles
    /\ raw = <<>>
    /\ bc = NoPass
    /\ pool = NoPool

\* OneIndexed::from_zero_indexed(v)
FromZeroIndexed ==
    /\ res = NoRes
    /\ \E v \in UsizeInputs :
          /\ one' = from_zero_indexed(v)
          /\ res' = Query("from_zero_indexed", <<v>>, "none", Ok(<<one'>>))
    /\ UNCHANGED <<chars, text, index, fileVars, files, raw, bc, pool>>

\* one.saturating_add(rhs)
OneSaturatingAdd ==
    /\ res = NoRes
    /\ \E rhs \in UsizeInputs :
          /\ one' = one_saturating_add(one, rhs)
          /\ NearEnds(one')
          /\ res' = Query("one_saturating_add", <<one, rhs>>, "none", Ok(<<one'>>))
    /\ UNCHANGED <<chars, text, index, fileVars, files, raw, bc, pool>>

\* one.saturating_sub(rhs)
OneSaturatingSub ==
    /\ res = NoRes
    /\ \E rhs \in UsizeInputs :
          /\ one' = one_saturating_sub(one, rhs)
          /\ NearEnds(one')
          /\ res' = Query("one_saturating_sub", <<one, rhs>>, "none", Ok(<<one'>>))
    /\ UNCHANGED <<chars, text, index, fileVars, files, raw, bc, pool>>

\* one.checked_add(rhs), one.checked_sub(rhs) with rhs a OneIndexed value
OneChecked ==
    /\ res = NoRes
    /\ \E rhs \in UsizeInputs \ {0} :
          \/ res' = Query("one_checked_add", <<one, rhs>>, "none", Ok(one_checked_add(one, rhs)))
          \/ res' = Query("one_checked_sub", <<one, rhs>>, "none", Ok(one_checked_sub(one, rhs)))
    /\ UNCHANGED <<chars, text, index, fileVars, moreVars>>

NextOneIndexed ==
    \/ FromZeroIndexed
    \/ OneSaturatingAdd
    \/ OneSaturatingSub
    \/ OneChecked
    \/ Return

SpecOneIndexed == InitOneIndexed /\ [][NextOneIndexed]_vars

\* ===================================================== LineRanges for str
\* memrchr2(b'\n', b'\r', bytes) seeing only '\n'.
memrchr2_OnlyLf(bytes) ==
    IF \E k \in 1..Len(bytes) : bytes[k] = LF
    THEN (CHOOSE k \in 1..Len(bytes) :
             bytes[k] = LF /\ \A j \in (k + 1)..Len(bytes) : bytes[j] # LF) - 1
    ELSE -1

\* memrchr2(b'\n', b'\r', bytes): the last position (zero-based) of either
\* byte, -1 for None.
RECURSIVE memrchr2(_)
memrchr2(bytes) ==
    IF bytes = <<>> THEN -1
    ELSE IF bytes[Len(bytes)] = LF \/ bytes[Len(bytes)] = CR THEN Len(bytes) - 1
    ELSE memrchr2(SubSeq(bytes, 1, Len(bytes) - 1))

\* memchr2(b'\n', b'\r', bytes) from position i on: the first position
\* (zero-based) of either byte, -1 for None.
RECURSIVE memchr2_from(_, _)
memchr2_from(bytes, i) ==
    IF i >= Len(bytes) THEN -1
    ELSE IF bytes[i + 1] = LF \/ bytes[i + 1] = CR THEN i
    ELSE memchr2_from(bytes, i + 1)

memchr2(bytes) == memchr2_from(bytes, 0)

\* <str as LineRanges>::bom_start_offset
bom_start_offset(t) == IF starts_with_bom(t) THEN Len(EncodeUtf8(BOM)) ELSE 0

\* line_start returning the position of the terminator, 1 not added.
str_line_start_AtTerminator(t, o) ==
    IF ~CanSlice(t, 0, o) THEN Panic
    ELSE LET at == memrchr2(Slice(t, 0, o)) IN
         IF at >= 0 THEN Ok(<<at>>) ELSE Ok(<<bom_start_offset(t)>>)

\* <str as LineRanges>::line_start; &self[..offset] aborts past the end and
\* inside a char.
str_line_start(t, o) ==
    IF ~CanSlice(t, 0, o) THEN Panic
    ELSE LET at == memrchr2(Slice(t, 0, o)) IN
         IF at >= 0 THEN Ok(<<at + 1>>) ELSE Ok(<<bom_start_offset(t)>>)

\* find_newline: the position of the next line terminator of the slice and
\* its width, <<position, width>>: a \r\n pair is one terminator of two
\* bytes, a lone \n or \r has one byte; <<>> when there is none.
find_newline(slice) ==
    LET at == memchr2(slice) IN
    IF at < 0 THEN <<>>
    ELSE IF slice[at + 1] = CR /\ at + 1 < Len(slice) /\ slice[at + 2] = LF THEN <<at, 2>>
    ELSE <<at, 1>>

\* full_line_end stepping over one byte whatever the terminator is.
str_full_line_end_OneByte(t, o) ==
    IF ~CanSlice(t, o, Len(t)) THEN Panic
    ELSE LET found == find_newline(Slice(t, o, Len(t))) IN
         IF found # <<>> THEN Ok(<<o + found[1] + 1>>) ELSE Ok(<<text_len(t)>>)

\* <str as LineRanges>::full_line_end
str_full_line_end(t, o) ==
    IF ~CanSlice(t, o, Len(t)) THEN Panic
    ELSE LET found == find_newline(Slice(t, o, Len(t))) IN
         IF found # <<>> THEN Ok(<<o + found[1] + found[2]>>) ELSE Ok(<<text_len(t)>>)

\* line_end returning the position within the slice, the offset not added.
str_line_end_NoOffset(t, o) ==
    IF ~CanSlice(t, o, Len(t)) THEN Panic
    ELSE LET at == memchr2(Slice(t, o, Len(t))) IN
         IF at >= 0 THEN Ok(<<at>>) ELSE Ok(<<text_len(t)>>)

\* <str as LineRanges>::line_end
str_line_end(t, o) ==
    IF ~CanSlice(t, o, Len(t)) THEN Panic
    ELSE LET at == memchr2(Slice(t, o, Len(t))) IN
         IF at >= 0 THEN Ok(<<o + at>>) ELSE Ok(<<text_len(t)>>)

\* <str as LineRanges>::contains_line_break: 1 for true, 0 for false.
contains_line_break(t, range) ==
    IF ~CanSlice(t, range[1], range[2]) THEN Panic
    ELSE Ok(<<IF memchr2(Slice(t, range[1], range[2])) >= 0 THEN 1 ELSE 0>>)

\* The loop of count_lines going on while line_end is at the end of the range.
RECURSIVE count_lines_loop_PastEnd(_, _, _, _)
count_lines_loop_PastEnd(t, le, range_end, count) ==
    LET next_line_start == str_full_line_end(t, le).v[1] IN
    IF next_line_start = le THEN count
    ELSE IF le > range_end THEN count
    ELSE count_lines_loop_PastEnd(t, str_line_end(t, next_line_start).v[1], range_end, count + 1)

\* The loop of count_lines, entered with line_end = le.
RECURSIVE count_lines_loop(_, _, _, _)
count_lines_loop(t, le, range_end, count) ==
    LET next_line_start == str_full_line_end(t, le).v[1] IN
    IF next_line_start = le THEN count
    ELSE IF le >= range_end THEN count
    ELSE count_lines_loop(t, str_line_end(t, next_line_start).v[1], range_end, count + 1)

\* LineRanges::count_lines
count_lines(t, range) ==
    LET first == str_line_end(t, range[1]) IN
    IF ~first.ok THEN Panic
    ELSE Ok(<<count_lines_loop(t, first.v[1], range[2], 0)>>)

\* The ranges of the text, start <= end.
TextRanges == {<<a, b>> \in Offsets \X Offsets : a <= b}

InitScan ==
    /\ chars \in Strings(MaxChars)
    /\ text = as_bytes(chars)
    /\ index = NoIndex
    /\ res = NoRes
    /\ NoFile
    /\ NoMore

\* source.line_start(o)
StrLineStart ==
    /\ res = NoRes
    /\ \E o \in Offsets : res' = Query("str_line_start", <<o>>, "none", str_line_start(text, o))
    /\ UNCHANGED <<chars, text, index, fileVars, moreVars>>

\* source.full_line_end(o)
StrFullLineEnd ==
    /\ res = NoRes
    /\ \E o \in Offsets :
          res' = Query("str_full_line_end", <<o>>, "none", str_full_line_end(text, o))
    /\ UNCHANGED <<chars, text, index, fileVars, moreVars>>

\* source.line_end(o)
StrLineEnd ==
    /\ res = NoRes
    /\ \E o \in Offsets : res' = Query("str_line_end", <<o>>, "none", str_line_end(text, o))
    /\ UNCHANGED <<chars, text, index, fileVars, moreVars>>

\* source.contains_line_break(range)
ContainsLineBreak ==
    /\ res = NoRes
    /\ \E range \in TextRanges :
          res' = Query("contains_line_break", range, "none", contains_line_break(text, range))
    /\ UNCHANGED <<chars, text, index, fileVars, moreVars>>

\* source.count_lines(range)
CountLines ==
    /\ res = NoRes
    /\ \E range \in TextRanges :
          res' = Query("count_lines", range, "none", count_lines(text, range))
    /\ UNCHANGED <<chars, text, index, fileVars, moreVars>>

NextScan ==
    \/ StrLineStart
    \/ StrFullLineEnd
    \/ StrLineEnd
    \/ ContainsLineBreak
    \/ CountLines
    \/ Return

SpecScan == InitScan /\ [][NextScan]_vars

\* ========================================================= CommentRanges
\* A TextRange is <<start, end>> with start <= end.
Max2(a, b) == IF a >= b THEN a ELSE b

Min2(a, b) == IF a <= b THEN a ELSE b

\* TextRange::intersect: the overlapping sub-range as <<<<start, end>>>>, or
\* none as <<>>; ranges that only touch have no overlapping sub-range.
intersect(a, b) ==
    LET start == Max2(a[1], b[1])
        end == Min2(a[2], b[2]) IN
    IF start < end THEN <<(<<start, end>>)>> ELSE <<>>

\* The comparator of intersects treating every range that touches the
\* target as overlapping it.
intersects_cmp_Inclusive(range, target) ==
    IF range[1] <= target[2] /\ target[1] <= range[2] THEN 0
    ELSE IF range[2] < target[1] THEN -1
    ELSE 1

\* The comparator of intersects: 0 Equal, -1 Less, 1 Greater.
intersects_cmp(range, target) ==
    IF intersect(target, range) # <<>> THEN 0
    ELSE IF range[2] < target[1] THEN -1
    ELSE 1

\* slice::binary_search_by over the positions lo..hi - 1 (zero-based) of a
\* slice whose elements compare as cs: TRUE when an Equal element is hit.
RECURSIVE binary_search_by_in(_, _, _)
binary_search_by_in(cs, lo, hi) ==
    IF lo >= hi THEN FALSE
    ELSE LET mid == lo + ((hi - lo) \div 2) IN
         IF cs[mid + 1] = 0 THEN TRUE
         ELSE IF cs[mid + 1] < 0 THEN binary_search_by_in(cs, mid + 1, hi)
         ELSE binary_search_by_in(cs, lo, mid)

\* CommentRanges::intersects
intersects(rs, target) ==
    binary_search_by_in([k \in 1..Len(rs) |-> intersects_cmp(rs[k], target)], 0, Len(rs))

\* slice::partition_point over the positions lo..hi - 1 of a slice whose
\* elements satisfy the predicate as ps: the first position that does not.
RECURSIVE partition_point_in(_, _, _)
partition_point_in(ps, lo, hi) ==
    IF lo >= hi THEN lo
    ELSE LET mid == lo + ((hi - lo) \div 2) IN
         IF ps[mid + 1] THEN partition_point_in(ps, mid + 1, hi)
         ELSE partition_point_in(ps, lo, mid)

\* position stopping at a comment that ends at the end of the range.
position_end_after_AtEnd(rs, i, end) ==
    IF \E k \in (i + 1)..Len(rs) : rs[k][2] >= end
    THEN (CHOOSE k \in (i + 1)..Len(rs) :
             rs[k][2] >= end /\ \A j \in (i + 1)..(k - 1) : rs[j][2] < end) - 1
    ELSE Len(rs)

\* iter().position(|comment| comment.end() > range.end()) over rs from
\* position i (zero-based) on: the position found, or Len(rs) for None.
RECURSIVE position_end_after(_, _, _)
position_end_after(rs, i, end) ==
    IF i >= Len(rs) THEN Len(rs)
    ELSE IF rs[i + 1][2] > end THEN i
    ELSE position_end_after(rs, i + 1, end)

\* CommentRanges::comments_in_range
comments_in_range(rs, range) ==
    LET start == partition_point_in([k \in 1..Len(rs) |-> rs[k][1] < range[1]], 0, Len(rs))
        stop == position_end_after(rs, start, range[2]) IN
    SubSeq(rs, start + 1, stop)

\* The comment sequences a scanner can hand to CommentRanges::new: non-empty
\* ranges, ascending by start, no two overlapping.
IsSortedNonOverlapping(rs) ==
    /\ \A k \in 1..Len(rs) : rs[k][1] < rs[k][2]
    /\ \A k \in 1..(Len(rs) - 1) : rs[k][2] <= rs[k + 1][1]

SmallRanges == {<<a, b>> : a \in 0..MaxOffset, b \in 0..MaxOffset}

\* The sequences of at most k non-empty ranges within from..MaxOffset that
\* are ascending and do not overlap.
RECURSIVE SeqsFrom(_, _)
SeqsFrom(k, from) ==
    IF k = 0 THEN {<<>>}
    ELSE {<<>>} \cup
         UNION {{<<r>> \o rest : rest \in SeqsFrom(k - 1, r[2])} :
                   r \in {q \in SmallRanges : from <= q[1] /\ q[1] < q[2]}}

CommentSeqs ==
    SeqsFrom(MaxComments, 0)
      \cup {<<(<<5, 10>>)>>, <<(<<10, 12>>), (<<20, 25>>), (<<30, 32>>)>>}

QueryRanges ==
    {r \in SmallRanges : r[1] <= r[2]} \cup {<<10, 15>>, <<9, 11>>, <<15, 28>>}

\* CommentRanges::new(ranges)
InitComments ==
    /\ raw \in CommentSeqs
    /\ chars = <<>>
    /\ text = <<>>
    /\ index = NoIndex
    /\ res = NoRes
    /\ NoFile
    /\ files = NoFiles
    /\ bc = NoPass
    /\ one = 0
    /\ pool = NoPool

\* comment_ranges.intersects(target)
Intersects ==
    /\ res = NoRes
    /\ \E target \in QueryRanges :
          res' = Query("intersects", target, "none",
                       Ok(<<IF intersects(raw, target) THEN 1 ELSE 0>>))
    /\ UNCHANGED <<chars, text, index, fileVars, moreVars>>

\* comment_ranges.comments_in_range(range)
CommentsInRange ==
    /\ res = NoRes
    /\ \E range \in QueryRanges :
          res' = Query("comments_in_range", range, "none", Ok(comments_in_range(raw, range)))
    /\ UNCHANGED <<chars, text, index, fileVars, moreVars>>

NextComments ==
    \/ Intersects
    \/ CommentsInRange
    \/ Return

SpecComments == InitComments /\ [][NextComments]_vars

\* =========================================== CommentRanges::block_comments
Hash == 35
Space == 32
Tab == 9
FormFeed == 12

\* is_python_whitespace: space, tab and form feed.
is_python_whitespace(c) == c \in {Space, Tab, FormFeed}

\* chars().all(is_python_whitespace) of the bytes s: a byte of a longer
\* encoding is no whitespace byte.
all_python_whitespace(s) == \A k \in 1..Len(s) : is_python_whitespace(s[k])

\* chars().skip(1) of the bytes s.
skip_one(s) == IF s = <<>> THEN <<>> ELSE SubSeq(s, Utf8Width(s[1]) + 1, Len(s))

\* CommentRanges::is_empty
is_empty(range, t) == all_python_whitespace(skip_one(Slice(t, range[1], range[2])))

\* is_own_line looking only at the character before the comment.
is_own_line_LastCharOnly(o, t) ==
    o = str_line_start(t, o).v[1] \/ is_python_whitespace(t[o])

\* CommentRanges::is_own_line
is_own_line(o, t) == all_python_whitespace(Slice(t, str_line_start(t, o).v[1], o))

\* The test before block_comments.extend(current_block), without the length.
qualifies_NonEmptyOnly(b) == b.current_block_non_empty

\* current_block.len() > 1 && current_block_non_empty
qualifies(b) == Len(b.current_block) > 1 /\ b.current_block_non_empty

\* if current_block.len() > 1 && current_block_non_empty
\*     { block_comments.extend(current_block); }
flush(b) == IF qualifies(b) THEN b.block_comments \o b.current_block ELSE b.block_comments

\* The end-of-line branch leaving the block open.
end_of_line_comment_KeepsBlock(b, le) == [b EXCEPT !.prev_line_end = le]

\* The branch of an end-of-line comment: push the current block, and reset.
end_of_line_comment(b, le) ==
    [b EXCEPT !.block_comments = flush(b),
              !.current_block = <<>>,
              !.current_block_column = -1,
              !.current_block_non_empty = FALSE,
              !.prev_line_end = le]

\* The reset of the block state carrying the non-empty flag over.
new_block_KeepsFlag(b, o, column, non_empty, le) ==
    [b EXCEPT !.block_comments = flush(b),
              !.current_block = <<o>>,
              !.current_block_column = column,
              !.current_block_non_empty = @ \/ non_empty,
              !.prev_line_end = le]

\* Push the current block and reset the block state to this comment.
new_block(b, o, column, non_empty, le) ==
    [b EXCEPT !.block_comments = flush(b),
              !.current_block = <<o>>,
              !.current_block_column = column,
              !.current_block_non_empty = non_empty,
              !.prev_line_end = le]

\* Adding a comment with current_block_non_empty = in place of |=.
push_comment_LastDecides(b, o, non_empty, le) ==
    [b EXCEPT !.current_block = Append(@, o),
              !.current_block_non_empty = non_empty,
              !.prev_line_end = le]

\* Add the comment to the current block.
push_comment(b, o, non_empty, le) ==
    [b EXCEPT !.current_block = Append(@, o),
              !.current_block_non_empty = @ \/ non_empty,
              !.prev_line_end = le]

\* The blank-line test never finding a line break.
line_break_before_Never(t, b, ls) == FALSE

\* prev_line_end.is_some_and(|prev_line_end|
\*     source.contains_line_break(TextRange::new(prev_line_end, line_start)))
line_break_before(t, b, ls) ==
    /\ b.prev_line_end # -1
    /\ contains_line_break(t, <<b.prev_line_end, ls>>).v[1] = 1

\* TextRange::new(start, end): aborts unless start <= end.
text_range_new(start, end) == IF start <= end THEN Ok(<<start, end>>) ELSE Panic

\* The pass aborts (panics).
abort(b) == [b EXCEPT !.panicked = TRUE]

\* The body of the loop of block_comments for one comment range. It aborts
\* where a slice of the source or a range it builds aborts: line_start and
\* full_line_end of the offset, offset - line_start and the range of
\* is_own_line, the range of the line-break test, the slice of is_empty.
block_step(t, b, comment_range) ==
    LET o == comment_range[1]
        ls == str_line_start(t, o).v[1]
        le == str_full_line_end(t, o).v[1]
        column == o - ls
        non_empty == ~is_empty(comment_range, t) IN
    IF ~str_line_start(t, o).ok \/ ~str_full_line_end(t, o).ok THEN abort(b)
    ELSE IF ~text_range_new(ls, o).ok THEN abort(b)
    ELSE IF ~is_own_line(o, t) THEN end_of_line_comment(b, le)
    ELSE IF b.prev_line_end # -1 /\ ~text_range_new(b.prev_line_end, ls).ok THEN abort(b)
    ELSE IF b.prev_line_end # -1 /\ ~contains_line_break(t, <<b.prev_line_end, ls>>).ok
         THEN abort(b)
    ELSE IF ~CanSlice(t, comment_range[1], comment_range[2]) THEN abort(b)
    ELSE IF line_break_before(t, b, ls) THEN new_block(b, o, column, non_empty, le)
    ELSE IF b.current_block_column # -1
         THEN IF column = b.current_block_column
              THEN push_comment(b, o, non_empty, le)
              ELSE new_block(b, o, column, non_empty, le)
    ELSE new_block(b, o, column, non_empty, le)

\* The lines the source texts are made of: blank, code, own-line comments
\* (empty and not, at column 0 and 1) and an end-of-line comment.
LineShapes ==
    { <<>>, <<LetterX>>, <<Hash>>, <<Hash, Space>>, <<Hash, LetterX>>,
      <<Space, Hash>>, <<Space, Hash, LetterX>>, <<LetterX, Hash, LetterX>> }

\* The source texts of up to n lines.
RECURSIVE SourceTexts(_)
SourceTexts(n) ==
    IF n <= 1 THEN LineShapes
    ELSE SourceTexts(n - 1)
         \cup {s \o <<LF>> \o l : s \in SourceTexts(n - 1), l \in LineShapes}

RECURSIVE AscendingSeq(_)
AscendingSeq(S) ==
    IF S = {} THEN <<>>
    ELSE LET m == CHOOSE x \in S : \A y \in S : x <= y IN <<m>> \o AscendingSeq(S \ {m})

\* The comment ranges a scanner hands to CommentRanges::new for the text t:
\* from the first '#' of a line to the end of that line, in source order.
CommentRangesOf(t) ==
    LET starts == {p \in 0..(Len(t) - 1) :
                      /\ t[p + 1] = Hash
                      /\ \A q \in 0..(p - 1) :
                             t[q + 1] = Hash => \E m \in (q + 1)..(p - 1) : t[m + 1] = LF}
        ord == AscendingSeq(starts)
        end(p) == CHOOSE e \in p..Len(t) :
                      /\ e = Len(t) \/ t[e + 1] = LF
                      /\ \A q \in p..(e - 1) : t[q + 1] # LF IN
    [k \in 1..Len(ord) |-> <<ord[k], end(ord[k])>>]

InitBlocks ==
    /\ chars \in SourceTexts(MaxSrcLines)
    /\ text = as_bytes(chars)
    /\ raw = CommentRangesOf(text)
    /\ bc = NoPass
    /\ files = NoFiles
    /\ one = 0
    /\ pool = NoPool
    /\ index = NoIndex
    /\ res = NoRes
    /\ NoFile

\* One turn of `for comment_range in &self.raw`.
BlockStep ==
    /\ ~bc.done
    /\ ~bc.panicked
    /\ bc.i < Len(raw)
    /\ bc' = [block_step(text, bc, raw[bc.i + 1]) EXCEPT !.i = bc.i + 1]
    /\ UNCHANGED <<lineVars, fileVars, files, raw, one, pool>>

\* Push any lingering blocks, and return block_comments.
BlockFlush ==
    /\ ~bc.done
    /\ ~bc.panicked
    /\ bc.i = Len(raw)
    /\ bc' = [bc EXCEPT !.block_comments = flush(bc), !.done = TRUE]
    /\ UNCHANGED <<lineVars, fileVars, files, raw, one, pool>>

NextBlocks ==
    \/ BlockStep
    \/ BlockFlush

SpecBlocks == InitBlocks /\ [][NextBlocks]_vars

\* The characters of the texts of arbitrary comment ranges.
CommentAlphabet == {LF, CR, Space, Hash, LetterX, BOM}

CommentTexts(n) == UNION {[1..k -> CommentAlphabet] : k \in 0..n}

\* A comment may start at offset a of t: on a character that is neither
\* whitespace nor a line terminator, and not within a leading byte-order
\* mark.
IsMarkerAt(t, a) ==
    /\ a < Len(t)
    /\ is_char_boundary(t, a)
    /\ ~is_python_whitespace(t[a + 1])
    /\ t[a + 1] # LF
    /\ t[a + 1] # CR
    /\ ~(starts_with_bom(t) /\ a < Len(EncodeUtf8(BOM)))

\* The sequences of at most k comment ranges of t from offset `from` on:
\* in bounds, on character boundaries, ascending, not overlapping, each
\* starting at a marker.
RECURSIVE WellFormedFrom(_, _, _)
WellFormedFrom(t, k, from) ==
    IF k = 0 THEN {<<>>}
    ELSE {<<>>} \cup
         UNION {{<<r>> \o rest : rest \in WellFormedFrom(t, k - 1, r[2])} :
                   r \in {q \in (from..Len(t)) \X (from..Len(t)) :
                             /\ q[1] < q[2]
                             /\ IsMarkerAt(t, q[1])
                             /\ is_char_boundary(t, q[2])}}

InitBlocksAny ==
    /\ chars \in CommentTexts(MaxAnyChars)
    /\ text = as_bytes(chars)
    /\ raw \in WellFormedFrom(text, MaxAnyComments, 0)
    /\ bc = NoPass
    /\ files = NoFiles
    /\ one = 0
    /\ pool = NoPool
    /\ index = NoIndex
    /\ res = NoRes
    /\ NoFile

SpecBlocksAny == InitBlocksAny /\ [][NextBlocks]_vars

\* ========================================================= ThreadSafePool
PoolThreads == 1..NumPoolThreads

\* usize -= 1: the value wraps below zero where overflow checks are off.
usize_dec(x) == (x - 1 + Pow2(UsizeBits)) % Pow2(UsizeBits)

\* usize += n
usize_inc(x, n) == (x + n) % Pow2(UsizeBits)

\* ThreadSafePool::new(factory, capacity); no thread is inside a call, no
\* object has been handed out.
NewPool(capacity) ==
    [made |-> TRUE,
     capacity |-> capacity,
     objects |-> <<>>,
     stats |-> [capacity |-> capacity, available |-> 0, in_use |-> 0,
                total_created |-> 0, total_destroyed |-> 0],
     created |-> 0,
     held |-> {},
     th |-> [t \in PoolThreads |-> [pc |-> "idle", obj |-> 0]],
     last |-> [op |-> "none", ok |-> TRUE, before |-> <<>>, after |-> <<>>]]

InitPool ==
    /\ \E capacity \in 0..MaxCapacity : pool = NewPool(capacity)
    /\ chars = <<>>
    /\ text = <<>>
    /\ index = NoIndex
    /\ res = NoRes
    /\ NoFile
    /\ files = NoFiles
    /\ raw = <<>>
    /\ bc = NoPass
    /\ one = 0

PoolRest == <<lineVars, fileVars, files, raw, bc, one>>

\* What the finished call of a thread was and what it did to the objects.
Last(op, ok, before, after) == [op |-> op, ok |-> ok, before |-> before, after |-> after]

\* acquire with an object in the pool, under the write lock of objects:
\* pop_front, factory.reset (which may fail: the call returns the error and
\* the object is dropped), then the statistics, then the object is returned.
AcquirePooled(t) ==
    /\ pool.made
    /\ pool.th[t].pc = "idle"
    /\ pool.objects # <<>>
    /\ LET obj == Head(pool.objects)
           rest == Tail(pool.objects) IN
       \E reset_ok \in BOOLEAN :
          pool' = IF reset_ok
                  THEN [pool EXCEPT !.objects = rest,
                                    !.stats.available = usize_dec(@),
                                    !.stats.in_use = usize_inc(@, 1),
                                    !.held = @ \cup {obj},
                                    !.last = Last("acquire", TRUE, pool.objects, rest)]
                  ELSE [pool EXCEPT !.objects = rest,
                                    !.last = Last("acquire", FALSE, pool.objects, rest)]
    /\ UNCHANGED PoolRest

\* acquire finding the pool empty: the lock is released, the thread goes on
\* to create an object.
AcquireEmpty(t) ==
    /\ pool.made
    /\ pool.th[t].pc = "idle"
    /\ pool.objects = <<>>
    /\ pool' = [pool EXCEPT !.th[t].pc = "create"]
    /\ UNCHANGED PoolRest

\* factory.create()?: a new object, or the error is returned.
Create(t) ==
    /\ pool.made
    /\ pool.th[t].pc = "create"
    /\ \/ /\ pool.created < MaxObjects
          /\ pool' = [pool EXCEPT !.created = @ + 1,
                                  !.th[t] = [pc |-> "created", obj |-> pool.created + 1]]
       \/ pool' = [pool EXCEPT !.th[t] = [pc |-> "idle", obj |-> 0],
                               !.last = Last("acquire", FALSE, pool.objects, pool.objects)]
    /\ UNCHANGED PoolRest

\* The statistics of a created object, and acquire returns it.
Created(t) ==
    /\ pool.made
    /\ pool.th[t].pc = "created"
    /\ pool' = [pool EXCEPT !.stats.total_created = usize_inc(@, 1),
                            !.stats.in_use = usize_inc(@, 1),
                            !.held = @ \cup {pool.th[t].obj},
                            !.th[t] = [pc |-> "idle", obj |-> 0],
                            !.last = Last("acquire", TRUE, pool.objects, pool.objects)]
    /\ UNCHANGED PoolRest

\* release(obj) of an object that was acquired: factory.validate decides
\* whether the object is destroyed or offered to the pool.
Release(t) ==
    /\ pool.made
    /\ pool.th[t].pc = "idle"
    /\ \E obj \in pool.held, valid \in BOOLEAN :
          pool' = [pool EXCEPT !.held = @ \ {obj},
                               !.th[t] = [pc |-> IF valid THEN "push" ELSE "destroy",
                                          obj |-> obj]]
    /\ UNCHANGED PoolRest

\* release under the write lock of objects: push_back and the statistics
\* when there is room, else the lock is released and the object destroyed.
Push(t) ==
    /\ pool.made
    /\ pool.th[t].pc = "push"
    /\ pool' = IF Len(pool.objects) < pool.capacity
               THEN [pool EXCEPT !.objects = Append(@, pool.th[t].obj),
                                 !.stats.available = usize_inc(@, 1),
                                 !.stats.in_use = usize_dec(@),
                                 !.th[t] = [pc |-> "idle", obj |-> 0],
                                 !.last = Last("release", TRUE, pool.objects,
                                               Append(pool.objects, pool.th[t].obj))]
               ELSE [pool EXCEPT !.th[t].pc = "destroy"]
    /\ UNCHANGED PoolRest

\* factory.destroy(obj)? in release: on an error release returns it.
Destroy(t) ==
    /\ pool.made
    /\ pool.th[t].pc = "destroy"
    /\ \E destroy_ok \in BOOLEAN :
          pool' = IF destroy_ok
                  THEN [pool EXCEPT !.th[t].pc = "destroyed"]
                  ELSE [pool EXCEPT !.th[t] = [pc |-> "idle", obj |-> 0],
                                    !.last = Last("release", FALSE, pool.objects, pool.objects)]
    /\ UNCHANGED PoolRest

\* The statistics of a destroyed object, and release returns.
Destroyed(t) ==
    /\ pool.made
    /\ pool.th[t].pc = "destroyed"
    /\ pool' = [pool EXCEPT !.stats.total_destroyed = usize_inc(@, 1),
                            !.stats.in_use = usize_dec(@),
                            !.th[t] = [pc |-> "idle", obj |-> 0],
                            !.last = Last("release", TRUE, pool.objects, pool.objects)]
    /\ UNCHANGED PoolRest

\* clear under the write lock of objects: drain(..) hands the objects to
\* factory.destroy one by one; at the first error clear returns it, the
\* drain is dropped and takes the objects left with it, the statistics are
\* not touched. `failed_at` is the object at which destroy fails, none
\* failing for Len(objects) + 1.
Clear(t) ==
    /\ pool.made
    /\ pool.th[t].pc = "idle"
    /\ \E failed_at \in 1..(Len(pool.objects) + 1) :
          pool' = IF failed_at > Len(pool.objects)
                  THEN [pool EXCEPT !.objects = <<>>,
                                    !.stats.available = 0,
                                    !.stats.total_destroyed = usize_inc(@, Len(pool.objects)),
                                    !.last = Last("clear", TRUE, pool.objects, <<>>)]
                  ELSE [pool EXCEPT !.objects = <<>>,
                                    !.last = Last("clear", FALSE, pool.objects, <<>>)]
    /\ UNCHANGED PoolRest

NextPool ==
    \E t \in PoolThreads :
        \/ AcquirePooled(t)
        \/ AcquireEmpty(t)
        \/ Create(t)
        \/ Created(t)
        \/ Release(t)
        \/ Push(t)
        \/ Destroy(t)
        \/ Destroyed(t)
        \/ Clear(t)

SpecPool == InitPool /\ [][NextPool]_vars

\* ====================================================== reference notions
\* What the claims speak of, read off the text itself and not off the index.

SetMax(S) == CHOOSE x \in S : \A y \in S : y <= x

\* Offsets p > 0 whose preceding byte ends a line: it is \n, or \r not
\* immediately followed by \n.
BreakEnds(t) ==
    {p \in 1..Len(t) : t[p] = LF \/ (t[p] = CR /\ ~(p < Len(t) /\ t[p + 1] = LF))}

\* The start of the line that offset o is on, and its one-based number.
TrueLineStart(t, o) == SetMax({0} \cup {p \in BreakEnds(t) : p <= o})

TrueLine(t, o) == 1 + Cardinality({p \in BreakEnds(t) : p <= o})

Range(f) == {f[i] : i \in DOMAIN f}

\* The byte offset at which scalar value number k + 1 of cs begins.
ByteOffsetOfChar(cs, k) == Len(as_bytes(SubSeq(cs, 1, k)))

\* The scalar values of cs that lie in the bytes [a, b).
CharsBetween(cs, a, b) ==
    {k \in 1..Len(cs) : a <= ByteOffsetOfChar(cs, k - 1) /\ ByteOffsetOfChar(cs, k - 1) < b}

\* 16-bit code units of the scalar values of cs that lie in the bytes [a, b).
Utf16UnitsBetween(cs, a, b) ==
    Cardinality(CharsBetween(cs, a, b))
      + Cardinality({k \in CharsBetween(cs, a, b) : cs[k] >= 65536})

OnCharBoundary(cs, o) == \E k \in 0..Len(cs) : ByteOffsetOfChar(cs, k) = o

PureAscii(cs) == \A k \in 1..Len(cs) : cs[k] < 128

BeginsWithBom(cs) == Len(cs) >= 1 /\ cs[1] = BOM

Built == index # NoIndex

\* ================================================================ claims

\* C1: the line-start table built by from_source_text has 0 as its first
\* entry and is strictly increasing, so it is never empty.
C1_LineStartsAscending ==
    Built =>
        /\ Len(index.line_starts) >= 1
        /\ index.line_starts[1] = 0
        /\ \A i \in 1..(Len(index.line_starts) - 1) :
               index.line_starts[i] < index.line_starts[i + 1]

\* C1 witness: a table with a \r\n pair and a further break has been built.
C1_Witness ==
    /\ Built
    /\ Len(index.line_starts) >= 3
    /\ \E p \in 1..(Len(text) - 1) : text[p] = CR /\ text[p + 1] = LF

\* C2: an offset p > 0 is a line start exactly when byte p - 1 is \n, or \r
\* not immediately followed by \n; line_count is the number of such breaks
\* plus one; "x\r\ny" gives [0, 3].
C2_LineStartsAreBreaks ==
    Built =>
        /\ \A p \in 1..Len(text) :
               (p \in Range(index.line_starts)) <=> (p \in BreakEnds(text))
        /\ Range(index.line_starts) \subseteq 0..Len(text)
        /\ line_count(index) = Cardinality(BreakEnds(text)) + 1
        /\ (chars = <<LetterX, CR, LF, LetterX>> => index.line_starts = <<0, 3>>)

\* C2 witness: the index of "x\r\ny" has been built.
C2_Witness == Built /\ chars = <<LetterX, CR, LF, LetterX>> /\ line_count(index) = 2

\* C3: line_index(o) is the one-based number of the line whose start is the
\* greatest line start <= o, it does not abort, and
\* line_index(line_start(line_index(o))) = line_index(o).
C3_LineIndexIsGreatestStart ==
    res.op = "line_index" =>
        /\ res.r.ok
        /\ LET o == res.arg[1]
               starts == index.line_starts
               l == res.r.v[1] IN
           /\ l \in 1..Len(starts)
           /\ starts[l] <= o
           /\ \A k \in 1..Len(starts) : starts[k] <= o => starts[k] <= starts[l]
           /\ l = Cardinality({k \in 1..Len(starts) : starts[k] <= o})
           /\ line_start(index, l, text).ok
           /\ line_index(index, line_start(index, l, text).v[1]) = res.r

\* C3 witness: an offset strictly inside the last of several lines.
C3_Witness ==
    /\ res.op = "line_index"
    /\ res.r.ok
    /\ line_count(index) >= 3
    /\ res.r.v[1] = line_count(index)
    /\ res.arg[1] > index.line_starts[line_count(index)]

\* C4: offset is the inverse of source_location: for every encoding and
\* every offset o on a character boundary,
\* offset(source_location(o, text, enc), text, enc) = o.
C4_OffsetInvertsSourceLocation ==
    res.op = "offset" =>
        \A o \in Offsets :
            (/\ OnCharBoundary(chars, o)
             /\ source_location(index, o, text, res.enc) = Ok(res.arg))
            => res.r = Ok(<<o>>)

\* C4 witness: the UTF-16 position after a char outside the Basic
\* Multilingual Plane, on a line that is not the first, is turned back.
C4_Witness ==
    /\ res.op = "offset"
    /\ res.enc = "Utf16"
    /\ res.arg[1] >= 2
    /\ res.arg[2] >= 3
    /\ \E o \in Offsets :
           /\ OnCharBoundary(chars, o)
           /\ source_location(index, o, text, "Utf16") = Ok(res.arg)
           /\ o >= 4
           /\ text[o - 3] = 240

\* C5: for a text that is not pure ASCII, source_location reports, one-based,
\* the distance from the start of o's line to o in raw bytes for UTF-8, in
\* 16-bit code units for UTF-16 (two for a char outside the Basic
\* Multilingual Plane) and in Unicode scalar values for UTF-32.
C5_EncodedDistance ==
    (res.op = "source_location" /\ ~PureAscii(chars)) =>
        LET o == res.arg[1]
            start == TrueLineStart(text, o) IN
        /\ res.enc = "Utf8" => res.r = Ok(<<TrueLine(text, o), 1 + (o - start)>>)
        /\ (res.enc = "Utf16" /\ OnCharBoundary(chars, o)) =>
               res.r = Ok(<<TrueLine(text, o), 1 + Utf16UnitsBetween(chars, start, o)>>)
        /\ (res.enc = "Utf32" /\ OnCharBoundary(chars, o)) =>
               res.r = Ok(<<TrueLine(text, o), 1 + Cardinality(CharsBetween(chars, start, o))>>)

\* C5 witness: a UTF-16 location whose line holds a char outside the Basic
\* Multilingual Plane before the offset.
C5_Witness ==
    /\ res.op = "source_location"
    /\ res.enc = "Utf16"
    /\ res.r.ok
    /\ LET o == res.arg[1] IN
       /\ OnCharBoundary(chars, o)
       /\ Utf16UnitsBetween(chars, TrueLineStart(text, o), o)
              > Cardinality(CharsBetween(chars, TrueLineStart(text, o), o))
       /\ o - TrueLineStart(text, o) > Utf16UnitsBetween(chars, TrueLineStart(text, o), o)

\* C6: for a pure-ASCII text source_location returns the same location
\* under UTF-8, UTF-16 and UTF-32: the line of o and (o - line start) + 1.
C6_AsciiLocation ==
    (res.op = "source_location" /\ PureAscii(chars)) =>
        LET o == res.arg[1] IN
        res.r = Ok(<<TrueLine(text, o), (o - TrueLineStart(text, o)) + 1>>)

\* C6 witness: a UTF-16 location on the second line of an ASCII text, past
\* the start of the line.
C6_Witness ==
    /\ res.op = "source_location"
    /\ PureAscii(chars)
    /\ res.enc = "Utf16"
    /\ res.r.ok
    /\ res.r.v[1] >= 2
    /\ res.r.v[2] >= 2

\* C7: line_column does not count a leading byte-order mark as a column, on
\* the first line only: the first character after the mark is at line 1,
\* column 1, each later character of line 1 is one column lower than its
\* UTF-32 source_location; on every other line, and in texts without a
\* mark, line_column equals the UTF-32 source_location.
C7_LineColumnSkipsBom ==
    (res.op = "line_column" /\ OnCharBoundary(chars, res.arg[1])) =>
        LET o == res.arg[1]
            loc == source_location(index, o, text, "Utf32") IN
        /\ res.r.ok /\ loc.ok
        /\ IF BeginsWithBom(chars) /\ TrueLine(text, o) = 1 /\ o >= 3
           THEN /\ res.r.v = <<1, loc.v[2] - 1>>
                /\ res.r.v[2] = Cardinality(CharsBetween(chars, 3, o)) + 1
                /\ (o = 3 => res.r.v = <<1, 1>>)
           ELSE (~BeginsWithBom(chars) \/ TrueLine(text, o) > 1) => res.r = loc

\* C7 witness: a character of line 1 after the mark, past the first one.
C7_Witness ==
    /\ res.op = "line_column"
    /\ BeginsWithBom(chars)
    /\ res.arg[1] > 3
    /\ res.r.ok
    /\ res.r.v[1] = 1
    /\ res.r.v[2] >= 2

\* C7 witness for the other lines: a text with a mark, a later line.
C7_WitnessLaterLine ==
    /\ res.op = "line_column"
    /\ BeginsWithBom(chars)
    /\ res.r.ok
    /\ res.r.v[1] >= 2
    /\ res.r.v[2] >= 2

\* C8: for the line exactly one past the last recorded line, line_range is
\* the empty range [len, len] and line_start and line_end are len; none
\* aborts.
C8_VirtualTrailingLine ==
    (res.op \in {"line_range", "line_start", "line_end"}
        /\ res.arg[1] = line_count(index) + 1) =>
        res.r = IF res.op = "line_range"
                THEN Ok(<<Len(text), Len(text)>>)
                ELSE Ok(<<Len(text)>>)

\* C8 witness: line_start of line_count + 1 in a text that ends inside a line.
C8_Witness ==
    /\ res.op = "line_start"
    /\ res.arg[1] = line_count(index) + 1
    /\ res.r.ok
    /\ Len(text) > index.line_starts[line_count(index)]

\* C9 as claimed: each of line_start, line_end, line_end_exclusive and
\* line_range aborts on a line number greater than line_count + 1.
C9_AllAbortPastEnd ==
    (res.op \in {"line_start", "line_end", "line_end_exclusive", "line_range"}
        /\ res.arg[1] > line_count(index) + 1) =>
        ~res.r.ok

\* C9 amended: on a line number greater than line_count + 1, line_start and
\* line_range abort; line_end and line_end_exclusive do not abort and
\* return the text length.
C9_StartAndRangeAbortEndsClamp ==
    (res.op \in {"line_start", "line_end", "line_end_exclusive", "line_range"}
        /\ res.arg[1] > line_count(index) + 1) =>
        IF res.op \in {"line_start", "line_range"}
        THEN ~res.r.ok
        ELSE res.r = Ok(<<Len(text)>>)

\* C9 witness: line_range asked for a line past line_count + 1.
C9_Witness ==
    /\ res.op = "line_range"
    /\ res.arg[1] > line_count(index) + 1
    /\ ~res.r.ok
\* C10: for a SourceFile built without a pre-supplied index, under every
\* interleaving of concurrent index() calls, from_source_text runs at most
\* once, and every call returns the same, fully built index: no reader is
\* handed a missing index.
C10_IndexBuiltOnce ==
    (sf_phase = "file" /\ builder_index = NoIndex) =>
        /\ built <= 1
        /\ \A r \in Readers :
               got[r] # NotReturned =>
                   /\ got[r] # NoIndex
                   /\ once_state = "Complete"
                   /\ got[r] = once_value
                   /\ got[r].line_starts[1] = 0
                   /\ Range(got[r].line_starts) = {0} \cup BreakEnds(text)
        /\ \A r1, r2 \in Readers :
               (got[r1] # NotReturned /\ got[r2] # NotReturned) => got[r1] = got[r2]

\* C10 witness: two readers were both inside index() before the cell was
\* complete, one ran the closure and the other waited; both have returned.
C10_Witness ==
    /\ sf_phase = "file"
    /\ builder_index = NoIndex
    /\ built = 1
    /\ \E r1, r2 \in Readers :
           /\ r1 # r2
           /\ pc[r1] = "done"
           /\ pc[r2] = "done"
           /\ local[r1] # NoIndex
           /\ local[r2] = NoIndex
           /\ got[r2] = local[r1]
           /\ Len(got[r1].line_starts) >= 2
\* C11: a.cmp(b) is Equal exactly when a == b, that is when a and b have the
\* same name and the same text; a value compared with itself (the same
\* shared allocation) is Equal.
C11_CmpEqualIffEq ==
    LET same == files.a.name = files.b.name /\ files.a.code = files.b.code IN
    /\ res.op = "cmp" =>
           /\ (res.r.v[1] = 0) <=> same
           /\ (files.a.alloc = files.b.alloc) => res.r.v[1] = 0
    /\ res.op = "eq" => ((res.r.v[1] = 1) <=> same)
\* Two ranges share at least one byte.
SharesByte(a, b) == \E p \in a[1]..(a[2] - 1) : b[1] <= p /\ p < b[2]

\* C12: intersects(target) is true only if some stored comment range shares
\* at least one byte with target; a stored range that merely touches the
\* target does not make it true: stored (5,10) with target (10,15) is
\* false, stored (5,10) with target (9,11) is true.
C12_IntersectsExclusiveAtBoundary ==
    res.op = "intersects" =>
        /\ res.r.v[1] = 1 => \E k \in 1..Len(raw) : SharesByte(raw[k], res.arg)
        /\ (raw = <<(<<5, 10>>)>> /\ res.arg = <<10, 15>>) => res.r.v[1] = 0
        /\ (raw = <<(<<5, 10>>)>> /\ res.arg = <<9, 11>>) => res.r.v[1] = 1

\* C12 witness: a stored range ends where the target starts and no stored
\* range shares a byte with the target; the answer is false.
C12_Witness ==
    /\ res.op = "intersects"
    /\ res.arg[1] < res.arg[2]
    /\ \E k \in 1..Len(raw) : raw[k][2] = res.arg[1]
    /\ res.r.v[1] = 0

\* C12 witness for the overlapping example: stored (5,10), target (9,11).
C12_WitnessOverlap ==
    /\ res.op = "intersects"
    /\ raw = <<(<<5, 10>>)>>
    /\ res.arg = <<9, 11>>
    /\ res.r.v[1] = 1

\* C13: comments_in_range(range) returns exactly the stored comments c with
\* c.start >= range.start and c.end <= range.end, as one contiguous
\* sub-sequence in stored order; [(10,12),(20,25),(30,32)] queried with
\* (15,28) gives [(20,25)].
C13_CommentsInRangeExact ==
    res.op = "comments_in_range" =>
        LET inside(c) == c[1] >= res.arg[1] /\ c[2] <= res.arg[2] IN
        /\ res.r.v = SelectSeq(raw, inside)
        /\ \E i \in 1..(Len(raw) + 1), j \in 0..Len(raw) : res.r.v = SubSeq(raw, i, j)
        /\ (raw = <<(<<10, 12>>), (<<20, 25>>), (<<30, 32>>)>> /\ res.arg = <<15, 28>>)
               => res.r.v = <<(<<20, 25>>)>>

\* C13 witness: the example of the three comments, and its answer.
C13_Witness ==
    /\ res.op = "comments_in_range"
    /\ raw = <<(<<10, 12>>), (<<20, 25>>), (<<30, 32>>)>>
    /\ res.arg = <<15, 28>>
    /\ res.r.v = <<(<<20, 25>>)>>

\* C13 witness: a comment that ends exactly at the end of the range is
\* returned, a comment before and a comment after the range are not.
C13_WitnessBoundary ==
    /\ res.op = "comments_in_range"
    /\ Len(raw) = 3
    /\ Len(res.r.v) = 1
    /\ res.r.v[1] = raw[2]
    /\ raw[2][2] = res.arg[2]
\* Byte p (zero-based) of t is a line-terminator byte.
IsTerminatorByte(t, p) == p < Len(t) /\ (t[p + 1] = LF \/ t[p + 1] = CR)

SetMin(S) == CHOOSE x \in S : \A y \in S : x <= y

\* C18: the unindexed line_start(offset) returns the position just after the
\* nearest '\n' or '\r' byte that precedes offset, and when no such byte
\* precedes it the start of content: 0, or the byte length of the
\* byte-order mark when the text begins with one.
C18_StrLineStart ==
    (res.op = "str_line_start" /\ OnCharBoundary(chars, res.arg[1])) =>
        LET o == res.arg[1]
            before == {p \in 0..(o - 1) : IsTerminatorByte(text, p)} IN
        res.r = IF before # {} THEN Ok(<<SetMax(before) + 1>>)
                ELSE IF BeginsWithBom(chars) THEN Ok(<<Len(EncodeUtf8(BOM))>>)
                ELSE Ok(<<0>>)

\* C18 witness: the nearest terminator before the offset is a '\r', with a
\* '\n' earlier in the text.
C18_Witness ==
    /\ res.op = "str_line_start"
    /\ res.r.ok
    /\ res.r.v[1] >= 2
    /\ res.r.v[1] < res.arg[1]
    /\ text[res.r.v[1]] = CR
    /\ \E p \in 1..(res.r.v[1] - 1) : text[p] = LF

\* C18 witness for the mark: no terminator before the offset in a text that
\* begins with a byte-order mark.
C18_WitnessBom ==
    /\ res.op = "str_line_start"
    /\ BeginsWithBom(chars)
    /\ res.arg[1] > 3
    /\ res.r = Ok(<<3>>)

\* C19: line_end(offset) is the position of the first terminator byte at or
\* after offset and full_line_end(offset) the position just after that
\* terminator, \r\n being one terminator of two bytes and a lone \n or \r
\* one of one byte; with no terminator both are the text length; so
\* full_line_end - line_end is 0, 1 or 2.
C19_StrLineEnds ==
    (res.op \in {"str_line_end", "str_full_line_end"} /\ OnCharBoundary(chars, res.arg[1])) =>
        LET o == res.arg[1]
            after == {p \in o..(Len(text) - 1) : IsTerminatorByte(text, p)}
            first == SetMin(after)
            width == IF text[first + 1] = CR /\ IsTerminatorByte(text, first + 1)
                        /\ text[first + 2] = LF
                     THEN 2 ELSE 1
            le == IF after = {} THEN Len(text) ELSE first
            fle == IF after = {} THEN Len(text) ELSE first + width IN
        /\ res.op = "str_line_end" => res.r = Ok(<<le>>)
        /\ res.op = "str_full_line_end" =>
               /\ res.r = Ok(<<fle>>)
               /\ str_line_end(text, o) = Ok(<<le>>)
               /\ res.r.v[1] - str_line_end(text, o).v[1] \in {0, 1, 2}

\* C19 witness: full_line_end of an offset before a \r\n pair that is
\* followed by more text.
C19_Witness ==
    /\ res.op = "str_full_line_end"
    /\ res.r.ok
    /\ res.r.v[1] >= 3
    /\ res.r.v[1] < Len(text)
    /\ text[res.r.v[1] - 1] = CR
    /\ text[res.r.v[1]] = LF
    /\ res.arg[1] < res.r.v[1] - 2

\* The offsets in [start, end) at which a line terminator begins, a \r\n
\* pair being one terminator that begins at its \r.
TerminatorsIn(t, start, end) ==
    {p \in start..(end - 1) :
        /\ IsTerminatorByte(t, p)
        /\ ~(t[p + 1] = LF /\ p > 0 /\ t[p] = CR)}

\* The same, reading the text from start on: a '\n' at start is a
\* terminator whatever precedes it.
TerminatorsReadFrom(t, start, end) ==
    {p \in start..(end - 1) :
        /\ IsTerminatorByte(t, p)
        /\ ~(t[p + 1] = LF /\ p > start /\ t[p] = CR)}

\* C20 as claimed: count_lines(range) is the number of line terminators (a
\* \r\n pair counted once) that begin at an offset p with
\* range.start <= p < range.end.
C20_CountLinesTerminatorsInRange ==
    (res.op = "count_lines" /\ OnCharBoundary(chars, res.arg[1])) =>
        res.r = Ok(<<Cardinality(TerminatorsIn(text, res.arg[1], res.arg[2]))>>)

\* C20 amended: count_lines(range) is the number of line terminators (a \r\n
\* pair counted once) met from range.start on that begin at an offset p with
\* range.start <= p < range.end, a '\n' at range.start counting as a
\* terminator also when the byte before it is '\r'; it is 0 when no
\* terminator byte lies in the range, and the loop ends: every turn moves
\* line_end forward.
C20_CountLinesReadFromStart ==
    /\ (res.op = "count_lines" /\ OnCharBoundary(chars, res.arg[1])) =>
           /\ res.r = Ok(<<Cardinality(TerminatorsReadFrom(text, res.arg[1], res.arg[2]))>>)
           /\ (\A p \in res.arg[1]..(res.arg[2] - 1) : ~IsTerminatorByte(text, p))
                  => res.r.v[1] = 0
           /\ res.r.v[1] <= Len(text)
    /\ res.op = "count_lines" =>
           \A p \in Offsets :
               IsTerminatorByte(text, p) =>
                   /\ str_full_line_end(text, p).ok
                   /\ str_full_line_end(text, p).v[1] > p
                   /\ str_line_end(text, str_full_line_end(text, p).v[1]).ok
                   /\ str_line_end(text, str_full_line_end(text, p).v[1]).v[1]
                          >= str_full_line_end(text, p).v[1]

\* C20 witness: a range that holds a \r\n pair and a further terminator and
\* ends on a terminator that is not counted.
C20_Witness ==
    /\ res.op = "count_lines"
    /\ res.r = Ok(<<2>>)
    /\ IsTerminatorByte(text, res.arg[2])
    /\ \E p \in res.arg[1]..(res.arg[2] - 2) : text[p + 1] = CR /\ text[p + 2] = LF
\* What the block_comments claims speak of, for comment number k of raw,
\* read off the text and not off the pass.
CommentOffset(k) == raw[k][1]

OwnLine(k) ==
    \A p \in TrueLineStart(text, CommentOffset(k))..(CommentOffset(k) - 1) :
        is_python_whitespace(text[p + 1])

ColumnOf(k) == CommentOffset(k) - TrueLineStart(text, CommentOffset(k))

LineNo(k) == TrueLine(text, CommentOffset(k))

EmptyComment(k) ==
    \A p \in (raw[k][1] + 1)..(raw[k][2] - 1) : is_python_whitespace(text[p + 1])

\* Comments a..b are two or more own-line comments at one column on
\* consecutive lines, at least one of them non-empty.
IsRun(a, b) ==
    /\ a < b
    /\ \A k \in a..b : OwnLine(k) /\ ColumnOf(k) = ColumnOf(a)
    /\ \A k \in a..(b - 1) : LineNo(k + 1) = LineNo(k) + 1
    /\ \E k \in a..b : ~EmptyComment(k)

\* Offset o is a member of such a run among the comments 1..upto.
InRun(o, upto) ==
    \E a \in 1..upto : \E b \in a..upto :
        IsRun(a, b) /\ \E k \in a..b : CommentOffset(k) = o

\* A blank line lies between comment j and comment k.
BlankBetween(j, k) ==
    \E l \in (LineNo(j) + 1)..(LineNo(k) - 1) :
        \A p \in 0..(Len(text) - 1) :
            TrueLine(text, p) = l => (text[p + 1] = LF \/ is_python_whitespace(text[p + 1]))

\* C14: every offset block_comments returns belongs to a run of at least two
\* own-line comments at the same column on consecutive lines of which at
\* least one is non-empty; a single isolated own-line comment and a run of
\* empty comments only are never returned.
C14_OnlyQualifyingBlocks ==
    bc.done =>
        \A j \in 1..Len(bc.block_comments) : InRun(bc.block_comments[j], Len(raw))

\* C14 witness: a block is returned while a single own-line non-empty
\* comment of the same text is not.
C14_Witness ==
    /\ bc.done
    /\ bc.block_comments # <<>>
    /\ \E k \in 1..Len(raw) :
          /\ OwnLine(k)
          /\ ~EmptyComment(k)
          /\ CommentOffset(k) \notin Range(bc.block_comments)

\* C14 witness for empty runs: two empty own-line comments at one column on
\* consecutive lines, nothing returned.
C14_WitnessAllEmpty ==
    /\ bc.done
    /\ bc.block_comments = <<>>
    /\ \E k \in 1..(Len(raw) - 1) :
          /\ OwnLine(k) /\ OwnLine(k + 1)
          /\ ColumnOf(k) = ColumnOf(k + 1)
          /\ LineNo(k + 1) = LineNo(k) + 1
          /\ EmptyComment(k) /\ EmptyComment(k + 1)

\* C15: whenever n >= 2 own-line comments sit at the same column on
\* consecutive lines and at least one of them is non-empty, block_comments
\* returns the start offset of all n of them, the empty members too, in
\* source order.
C15_RunsAreReturned ==
    bc.done =>
        /\ \A a \in 1..Len(raw) : \A b \in a..Len(raw) :
               IsRun(a, b) =>
                   \A k \in a..b : CommentOffset(k) \in Range(bc.block_comments)
        /\ \A j \in 1..(Len(bc.block_comments) - 1) :
               bc.block_comments[j] < bc.block_comments[j + 1]

\* C15 witness: a run of three whose first member is the only non-empty one
\* is returned whole.
C15_Witness ==
    /\ bc.done
    /\ Len(bc.block_comments) = 3
    /\ \E a \in 1..(Len(raw) - 2) :
          /\ IsRun(a, a + 2)
          /\ ~EmptyComment(a) /\ EmptyComment(a + 1) /\ EmptyComment(a + 2)

\* C15 witness for n = 2.
C15_WitnessTwo ==
    /\ bc.done
    /\ Len(raw) = 2
    /\ IsRun(1, 2)
    /\ bc.block_comments = <<CommentOffset(1), CommentOffset(2)>>

\* C16: the offset of an end-of-line comment is never in a block nor in the
\* output; once an end-of-line comment is passed the open block is closed
\* and flushed: just after it no block is open and every run before it is in
\* the output, and no block ever holds comments from both sides of it.
C16_TrailingCommentClosesBlock ==
    /\ \A k \in 1..Len(raw) :
           ~OwnLine(k) =>
               CommentOffset(k) \notin Range(bc.block_comments) \cup Range(bc.current_block)
    /\ \A k \in 1..bc.i :
           ~OwnLine(k) =>
               /\ \A o \in Range(bc.current_block) : o > CommentOffset(k)
               /\ (bc.i = k /\ ~bc.done) =>
                      /\ bc.current_block = <<>>
                      /\ bc.current_block_column = -1
                      /\ \A a \in 1..k : \A b \in a..k :
                             IsRun(a, b) =>
                                 \A m \in a..b :
                                     CommentOffset(m) \in Range(bc.block_comments)

\* C16 witness: an end-of-line comment between own-line comments of one
\* column, the block before it returned and the comment after it not.
C16_Witness ==
    /\ bc.done
    /\ Len(bc.block_comments) = 2
    /\ \E k \in 3..(Len(raw) - 1) :
          /\ ~OwnLine(k)
          /\ IsRun(k - 2, k - 1)
          /\ OwnLine(k + 1)
          /\ ColumnOf(k + 1) = ColumnOf(k - 1)
          /\ ~EmptyComment(k + 1)

\* C17: a blank line between two same-column own-line comments keeps them
\* out of one block: the comment after the blank line starts a new block,
\* what is returned by then are members of runs that end before the blank
\* line, and with these two as the only comments nothing is returned.
C17_BlankLineSeparates ==
    \A k \in 2..Len(raw) :
        (/\ OwnLine(k - 1) /\ OwnLine(k)
         /\ ColumnOf(k - 1) = ColumnOf(k)
         /\ BlankBetween(k - 1, k)) =>
            /\ (bc.i = k /\ ~bc.done) =>
                   /\ bc.current_block = <<CommentOffset(k)>>
                   /\ \A j \in 1..Len(bc.block_comments) :
                          InRun(bc.block_comments[j], k - 1)
            /\ (bc.done /\ Len(raw) = 2) => bc.block_comments = <<>>

\* C17 witness: a run of two, a blank line, a third comment at the same
\* column: the run is returned, the third comment opens a block of its own.
C17_Witness ==
    /\ bc.i = 3
    /\ ~bc.done
    /\ IsRun(1, 2)
    /\ OwnLine(3)
    /\ ColumnOf(3) = ColumnOf(2)
    /\ BlankBetween(2, 3)
    /\ bc.block_comments = <<CommentOffset(1), CommentOffset(2)>>
    /\ bc.current_block = <<CommentOffset(3)>>

\* C17 witness for two comments only: both non-empty, nothing returned.
C17_WitnessTwoOnly ==
    /\ bc.done
    /\ Len(raw) = 2
    /\ OwnLine(1) /\ OwnLine(2)
    /\ ColumnOf(1) = ColumnOf(2)
    /\ ~EmptyComment(1) /\ ~EmptyComment(2)
    /\ BlankBetween(1, 2)
    /\ bc.block_comments = <<>>

\* C21: checked_add(a, b) is None exactly when a + b exceeds the maximum of
\* the offset type and otherwise Some(a + b); checked_sub(a, b) is None
\* exactly when b > a and otherwise Some(a - b); neither aborts nor wraps.
C21_CheckedArithmetic ==
    /\ res.op = "checked_add" =>
           LET a == res.arg[1]
               b == res.arg[2] IN
           /\ res.r.ok
           /\ (res.r.v = <<>>) <=> (a + b > U32Max)
           /\ (res.r.v # <<>>) => res.r.v = <<a + b>>
    /\ res.op = "checked_sub" =>
           LET a == res.arg[1]
               b == res.arg[2] IN
           /\ res.r.ok
           /\ (res.r.v = <<>>) <=> (b > a)
           /\ (res.r.v # <<>>) => res.r.v = <<a - b>>

\* C21 witness: an addition of two non-zero offsets whose sum is one past
\* the maximum.
C21_Witness ==
    /\ res.op = "checked_add"
    /\ res.arg[1] > 1
    /\ res.arg[2] > 1
    /\ res.arg[1] + res.arg[2] = U32Max + 1
    /\ res.r = Ok(<<>>)

\* C21 witness for subtraction: b = a + 1.
C21_WitnessSub ==
    /\ res.op = "checked_sub"
    /\ res.arg[2] = res.arg[1] + 1
    /\ res.r = Ok(<<>>)

\* C22: a one-based index is never zero and never above MAX after any
\* sequence of from_zero_indexed, saturating_add and saturating_sub;
\* saturating_sub stops at 1, saturating_add stops at MAX, and checked_sub
\* is None whenever the result would be 0 or negative.
C22_OneIndexedSaturates ==
    /\ one \in 1..UsizeMax
    /\ res.op = "from_zero_indexed" =>
           res.r.v[1] = IF res.arg[1] + 1 > UsizeMax THEN UsizeMax ELSE res.arg[1] + 1
    /\ res.op = "one_saturating_add" =>
           res.r.v[1] = IF res.arg[1] + res.arg[2] > UsizeMax THEN UsizeMax
                        ELSE res.arg[1] + res.arg[2]
    /\ res.op = "one_saturating_sub" =>
           res.r.v[1] = IF res.arg[1] - res.arg[2] < 1 THEN 1
                        ELSE res.arg[1] - res.arg[2]
    /\ res.op = "one_checked_sub" =>
           /\ (res.r.v = <<>>) <=> (res.arg[1] - res.arg[2] <= 0)
           /\ (res.r.v # <<>>) => res.r.v = <<res.arg[1] - res.arg[2]>>

\* C22 witness: saturating_sub of more than the value, from a value above 1.
C22_Witness ==
    /\ res.op = "one_saturating_sub"
    /\ res.arg[1] > 1
    /\ res.arg[2] > res.arg[1]
    /\ one = 1

\* C22 witness for the upper end: saturating_add past MAX from below MAX.
C22_WitnessMax ==
    /\ res.op = "one_saturating_add"
    /\ res.arg[1] < UsizeMax
    /\ res.arg[1] + res.arg[2] > UsizeMax
    /\ one = UsizeMax

\* C22 witness for checked_sub: equal operands give None.
C22_WitnessCheckedSub ==
    /\ res.op = "one_checked_sub"
    /\ res.arg[1] = res.arg[2]
    /\ res.r = Ok(<<>>)

\* C23: for every sorted, non-overlapping comment sequence and every target
\* range, intersects returns what a linear scan returns: true exactly when
\* at least one stored range r has target.intersect(r) other than none.
C23_IntersectsIsLinearScan ==
    (res.op = "intersects" /\ IsSortedNonOverlapping(raw)) =>
        ((res.r.v[1] = 1) <=> \E k \in 1..Len(raw) : intersect(res.arg, raw[k]) # <<>>)

\* C24: the index built by from_source_text is classified ASCII if and only
\* if every byte of the text is below 0x80, so the fast path of
\* source_location and offset is taken only for texts whose byte count,
\* UTF-16 unit count and codepoint count coincide.
C24_AsciiClassificationExact ==
    Built =>
        /\ is_ascii(index) <=> (\A k \in 1..Len(text) : text[k] < 128)
        /\ is_ascii(index) <=> PureAscii(chars)
        /\ is_ascii(index) =>
               /\ Len(text) = Len(chars)
               /\ Utf16UnitsBetween(chars, 0, Len(text)) = Len(chars)

\* C24 witness: a position is asked of the index of a text that has a
\* non-ASCII character followed by an ASCII one; the index is not ASCII.
C24_Witness ==
    /\ Built
    /\ res.op = "source_location"
    /\ Len(chars) >= 2
    /\ chars[1] >= 128
    /\ chars[Len(chars)] < 128
    /\ ~is_ascii(index)

\* C24 witness for the fast path: a non-empty ASCII text, classified ASCII.
C24_WitnessAscii ==
    /\ Built
    /\ res.op = "offset"
    /\ Len(chars) >= 2
    /\ PureAscii(chars)
    /\ is_ascii(index)

\* C25: for every text, encoding and position whose line is within the
\* index, offset(position, text, enc) returns an r with
\* line_start(line) <= r <= line_start(line + 1), however large the
\* character offset is; for a line past the end it returns the text length.
C25_OffsetClampedToLine ==
    res.op = "offset" =>
        LET line == res.arg[1] IN
        /\ res.r.ok
        /\ line <= line_count(index) =>
               /\ line_start(index, line, text).v[1] <= res.r.v[1]
               /\ res.r.v[1] <= line_start(index, line + 1, text).v[1]
        /\ line > line_count(index) => res.r.v[1] = Len(text)

\* C26 as claimed: for every valid offset o in [0, len] the scanner keeps
\* line_start(o) <= o <= line_end(o) <= full_line_end(o) <= len, also for
\* texts that begin with a byte-order mark and for o = 0.
C26_ScannerChain ==
    (res.op = "str_line_start" /\ OnCharBoundary(chars, res.arg[1])) =>
        LET o == res.arg[1]
            le == str_line_end(text, o)
            fle == str_full_line_end(text, o) IN
        /\ res.r.ok /\ le.ok /\ fle.ok
        /\ res.r.v[1] <= o
        /\ o <= le.v[1]
        /\ le.v[1] <= fle.v[1]
        /\ fle.v[1] <= Len(text)

\* C26 amended: for every valid offset o the scanner keeps
\* o <= line_end(o) <= full_line_end(o) <= len and line_start(o) <=
\* line_end(o); line_start(o) <= o holds except for o = 0 in a text that
\* begins with a byte-order mark, where line_start(0) is the byte length of
\* the mark.
C26_ScannerChainPastBom ==
    (res.op = "str_line_start" /\ OnCharBoundary(chars, res.arg[1])) =>
        LET o == res.arg[1]
            le == str_line_end(text, o)
            fle == str_full_line_end(text, o) IN
        /\ res.r.ok /\ le.ok /\ fle.ok
        /\ IF BeginsWithBom(chars) /\ o = 0
           THEN res.r.v[1] = Len(EncodeUtf8(BOM))
           ELSE res.r.v[1] <= o
        /\ res.r.v[1] <= le.v[1]
        /\ o <= le.v[1]
        /\ le.v[1] <= fle.v[1]
        /\ fle.v[1] <= Len(text)

\* C26 witness: line_start(0) of a text that begins with a byte-order mark
\* and goes on after it.
C26_Witness ==
    /\ res.op = "str_line_start"
    /\ res.arg[1] = 0
    /\ BeginsWithBom(chars)
    /\ Len(chars) >= 2
    /\ res.r.ok
    /\ res.r.v[1] > 0

\* C26 witness away from the mark: an offset strictly inside a line that is
\* ended by a \r\n pair, line_start < o < line_end < full_line_end.
C26_WitnessInside ==
    /\ res.op = "str_line_start"
    /\ res.r.ok
    /\ res.r.v[1] < res.arg[1]
    /\ str_line_end(text, res.arg[1]).ok
    /\ res.arg[1] < str_line_end(text, res.arg[1]).v[1]
    /\ str_full_line_end(text, res.arg[1]).v[1] = str_line_end(text, res.arg[1]).v[1] + 2

\* Offset o lies between the \r and the \n of a \r\n pair.
BetweenPair(t, o) == o > 0 /\ o < Len(t) /\ t[o] = CR /\ t[o + 1] = LF

\* What the index built for the text answers for the line of offset o.
IndexLineStart(o) ==
    LET ix == from_source_text(text) IN line_start(ix, line_index(ix, o).v[1], text)

IndexLineEnd(o) ==
    LET ix == from_source_text(text) IN line_end(ix, line_index(ix, o).v[1], text)

\* C27 as claimed: for every text without a byte-order mark and every offset
\* o in [0, len] that is not between the \r and the \n of a \r\n pair,
\* scanner line_start(o) equals index line_start(line_index(o)) and scanner
\* full_line_end(o) equals index line_end(line_index(o)).
C27_ScannerAgreesWithIndex ==
    (/\ res.op \in {"str_line_start", "str_full_line_end"}
     /\ ~BeginsWithBom(chars)
     /\ ~BetweenPair(text, res.arg[1])) =>
        /\ res.op = "str_line_start" => res.r = IndexLineStart(res.arg[1])
        /\ res.op = "str_full_line_end" => res.r = IndexLineEnd(res.arg[1])

\* C27 amended: the same for every such offset that is on a character
\* boundary; inside a character the scanner aborts and the index answers.
C27_ScannerAgreesOnBoundaries ==
    (/\ res.op \in {"str_line_start", "str_full_line_end"}
     /\ ~BeginsWithBom(chars)
     /\ ~BetweenPair(text, res.arg[1])) =>
        /\ res.op = "str_line_start" =>
               IF OnCharBoundary(chars, res.arg[1])
               THEN res.r.ok /\ res.r = IndexLineStart(res.arg[1])
               ELSE ~res.r.ok /\ IndexLineStart(res.arg[1]).ok
        /\ res.op = "str_full_line_end" =>
               IF OnCharBoundary(chars, res.arg[1])
               THEN res.r.ok /\ res.r = IndexLineEnd(res.arg[1])
               ELSE ~res.r.ok /\ IndexLineEnd(res.arg[1]).ok

\* C27 witness: line_start of an offset on the third line of a text whose
\* first line ends with \r\n and whose second ends with a lone \r.
C27_Witness ==
    /\ res.op = "str_line_start"
    /\ ~BeginsWithBom(chars)
    /\ res.r.ok
    /\ res.r.v[1] >= 3
    /\ text[res.r.v[1]] = CR
    /\ \E p \in 1..(res.r.v[1] - 2) : text[p] = CR /\ text[p + 1] = LF
    /\ res.r = IndexLineStart(res.arg[1])

\* C27 witness for full_line_end: an offset before a \r\n pair in the middle
\* of the text.
C27_WitnessEnd ==
    /\ res.op = "str_full_line_end"
    /\ ~BeginsWithBom(chars)
    /\ res.r.ok
    /\ res.r.v[1] < Len(text)
    /\ res.r.v[1] >= 2
    /\ text[res.r.v[1] - 1] = CR /\ text[res.r.v[1]] = LF
    /\ res.arg[1] <= res.r.v[1] - 2
    /\ res.r = IndexLineEnd(res.arg[1])

\* The number of the comment that starts at offset o, 0 when there is none.
CommentAt(o) ==
    IF \E k \in 1..Len(raw) : CommentOffset(k) = o
    THEN CHOOSE k \in 1..Len(raw) : CommentOffset(k) = o
    ELSE 0

\* C28: at every step of the block_comments pass a block column is recorded
\* if and only if the current block has at least one member; the
\* has-non-empty flag is true only if some current member is non-empty; all
\* current members are own-line comments at the recorded column; and the
\* output so far is strictly ascending, each comment start at most once.
C28_GroupingStateConsistent ==
    /\ (bc.current_block_column # -1) <=> (bc.current_block # <<>>)
    /\ bc.current_block_non_empty =>
           \E j \in 1..Len(bc.current_block) :
               /\ CommentAt(bc.current_block[j]) # 0
               /\ ~EmptyComment(CommentAt(bc.current_block[j]))
    /\ \A j \in 1..Len(bc.current_block) :
           LET k == CommentAt(bc.current_block[j]) IN
           /\ k # 0
           /\ k <= bc.i
           /\ OwnLine(k)
           /\ ColumnOf(k) = bc.current_block_column
    /\ \A j \in 1..(Len(bc.block_comments) - 1) :
           bc.block_comments[j] < bc.block_comments[j + 1]
    /\ \A j \in 1..Len(bc.block_comments) : CommentAt(bc.block_comments[j]) # 0

\* C28 witness: in the middle of a pass, after a block was returned, a block
\* of one empty comment at column 1 is open and its flag is false.
C28_Witness ==
    /\ ~bc.done
    /\ bc.i < Len(raw)
    /\ Len(bc.block_comments) = 2
    /\ Len(bc.current_block) = 1
    /\ bc.current_block_column = 1
    /\ ~bc.current_block_non_empty

\* C29: block_comments never aborts on well-formed input: for every text
\* and every sorted, non-overlapping, in-bounds comment sequence in which
\* each comment begins with a non-whitespace marker character and does not
\* start inside a byte-order mark, line_start(comment.start) <=
\* comment.start, and for each own-line comment the previous comment's
\* recorded line end is <= this comment's line start.
C29_BlockCommentsNeverAborts ==
    /\ ~bc.panicked
    /\ \A k \in 1..Len(raw) :
           /\ str_line_start(text, raw[k][1]).ok
           /\ str_line_start(text, raw[k][1]).v[1] <= raw[k][1]
    /\ (~bc.done /\ bc.i < Len(raw) /\ bc.prev_line_end # -1) =>
           LET o == raw[bc.i + 1][1] IN
           is_own_line(o, text) => bc.prev_line_end <= str_line_start(text, o).v[1]

\* C29 witness: a pass has returned over a text that begins with a
\* byte-order mark and holds two comments on one line, the second after a
\* space.
C29_Witness ==
    /\ bc.done
    /\ BeginsWithBom(chars)
    /\ Len(raw) = 2
    /\ raw[2][1] >= 1
    /\ text[raw[2][1]] = Space
    /\ \A p \in raw[1][1]..raw[2][1] : text[p + 1] # LF /\ text[p + 1] # CR

\* C29 witness for the line test: an own-line comment right after a line
\* that ends with \r\n and holds the previous comment.
C29_WitnessPair ==
    /\ ~bc.done
    /\ bc.i = 1
    /\ Len(raw) = 2
    /\ raw[2][1] >= 2
    /\ text[raw[2][1] - 1] = CR /\ text[raw[2][1]] = LF
    /\ bc.prev_line_end = raw[2][1]

\* No thread is inside a call of the pool.
PoolQuiet == \A t \in PoolThreads : pool.th[t].pc = "idle"

\* C30: after any sequence and interleaving of acquire, release and clear,
\* also when the factory's reset or destroy returns an error,
\* stats().available equals available_count(), available_count() never
\* exceeds the capacity, in_use equals the number of objects acquired and
\* not yet released, and a failed acquire or clear leaves the pooled
\* objects unchanged.
C30_PoolStatsConsistent ==
    pool.made =>
        /\ pool.stats.available = Len(pool.objects)
        /\ Len(pool.objects) <= pool.capacity
        /\ PoolQuiet => pool.stats.in_use = Cardinality(pool.held)
        /\ (pool.last.op \in {"acquire", "clear"} /\ ~pool.last.ok) =>
               pool.last.after = pool.last.before

====
